---------------------------- MODULE Spec2Model ----------------------------
(***************************************************************************)
(* A model of the narrative extraction and offense classification engine   *)
(* of WATCH: ocr_utils.py (template/narrative field extraction, offender   *)
(* scanner, taxonomy classifier), enhanced_extraction.py and the OCR       *)
(* routes (the offender merge), ocr_service.py (OCRService pattern         *)
(* cascades and confidence) and narrative_ocr_service.py.                  *)
(*                                                                         *)
(* Abstraction.  A text is a sequence of tokens; a token is a maximal run  *)
(* of non-blank characters, or the line break NL.  A Python string that    *)
(* holds words separated by single blanks is the sequence of its words, so *)
(* str.split() and " ".join() are the two directions of that              *)
(* representation; Join gives the Python string back where a formula       *)
(* compares with a literal.  A regular expression is modelled by the       *)
(* token sequences it matches; the character properties the patterns       *)
(* test (capitalised, all upper case, at least four letters, lower-case    *)
(* form) are tables over the vocabulary.                                   *)
(***************************************************************************)
EXTENDS Naturals, Integers, Sequences, FiniteSets, TLC

VARIABLES taxonomy,     \* OFFENSE_LIST, loaded once at import
          text,         \* the input of the calls of this behaviour
          clock,        \* datetime.now()
          hash_order,   \* the order this process's string hashing gives a set of names
          uploads,      \* the number of files saved in UPLOAD_FOLDER
          activity_log, \* the number of rows of ActivityLog
          result,       \* what the latest call returned
          calls         \* the calls the threads of the process are in

vars == <<taxonomy, text, clock, hash_order, uploads, activity_log, result, calls>>

-----------------------------------------------------------------------------
(* Bounds *)

MaxNameLen == 4
MaxClock == 1
MaxUploads == 1
MaxLog == 1
MaxTextLen == 2
MaxEntries == 2
MaxDescLen == 2
MaxChars == 4
MaxThreads == 2

-----------------------------------------------------------------------------
(* Tokens and their character properties *)

NL == "\n"

\* The words of the vocabulary: lower-case, capitalised and upper-case writing.
Words ==
  {<<"juan", "Juan", "JUAN">>, <<"miguel", "Miguel", "MIGUEL">>, <<"cruz", "Cruz", "CRUZ">>,
   <<"maria", "Maria", "MARIA">>, <<"rosario", "Rosario", "ROSARIO">>,
   <<"john", "John", "JOHN">>, <<"doe", "Doe", "DOE">>, <<"pedro", "Pedro", "PEDRO">>,
   <<"de", "De", "DE">>, <<"la", "La", "LA">>, <<"del", "Del", "DEL">>,
   <<"dela", "Dela", "DELA">>, <<"van", "Van", "VAN">>, <<"von", "Von", "VON">>,
   <<"san", "San", "SAN">>, <<"santa", "Santa", "SANTA">>, <<"da", "Da", "DA">>,
   <<"di", "Di", "DI">>,
   <<"student", "Student", "STUDENT">>, <<"offender", "Offender", "OFFENDER">>,
   <<"faculty", "Faculty", "FACULTY">>, <<"staff", "Staff", "STAFF">>,
   <<"employee", "Employee", "EMPLOYEE">>, <<"member", "Member", "MEMBER">>,
   <<"instructor", "Instructor", "INSTRUCTOR">>, <<"named", "Named", "NAMED">>,
   <<"the", "The", "THE">>, <<"from", "From", "FROM">>, <<"department", "Department", "DEPARTMENT">>,
   <<"was", "Was", "WAS">>, <<"were", "Were", "WERE">>, <<"is", "Is", "IS">>,
   <<"who", "Who", "WHO">>, <<"caught", "Caught", "CAUGHT">>,
   <<"committed", "Committed", "COMMITTED">>, <<"violated", "Violated", "VIOLATED">>,
   <<"engaged", "Engaged", "ENGAGED">>, <<"participated", "Participated", "PARTICIPATED">>,
   <<"report", "Report", "REPORT">>, <<"complaint", "Complaint", "COMPLAINT">>,
   <<"letter", "Letter", "LETTER">>, <<"document", "Document", "DOCUMENT">>,
   <<"about", "About", "ABOUT">>, <<"regarding", "Regarding", "REGARDING">>,
   <<"concerning", "Concerning", "CONCERNING">>,
   <<"program", "Program", "PROGRAM">>, <<"course", "Course", "COURSE">>,
   <<"category", "Category", "CATEGORY">>, <<"guard", "Guard", "GUARD">>,
   <<"ba", "Ba", "BA">>,
   <<"last", "Last", "LAST">>, <<"first", "First", "FIRST">>,
   <<"section", "Section", "SECTION">>, <<"date", "Date", "DATE">>,
   <<"description", "Description", "DESCRIPTION">>,
   <<"on", "On", "ON">>, <<"october", "October", "OCTOBER">>,
   <<"oktubre", "Oktubre", "OKTUBRE">>,
   <<"business", "Business", "BUSINESS">>, <<"management", "Management", "MANAGEMENT">>,
   <<"ge", "Ge", "GE">>, <<"pandadaya", "Pandadaya", "PANDADAYA">>,
   <<"smoking", "Smoking", "SMOKING">>, <<"cheating", "Cheating", "CHEATING">>,
   <<"vape", "Vape", "VAPE">>, <<"late", "Late", "LATE">>,
   <<"bsit", "Bsit", "BSIT">>, <<"bsba", "Bsba", "BSBA">>,
   <<"it", "It", "IT">>, <<"with", "With", "WITH">>}

\* The tokens that are not words: <<as written, lower(), upper(), title()>>.
Others ==
  {<<"\n", "\n", "\n", "\n">>, <<",", ",", ",", ",">>,
   <<"LastName:", "lastname:", "LASTNAME:", "Lastname:">>,
   <<"FirstName:", "firstname:", "FIRSTNAME:", "Firstname:">>,
   <<"A", "a", "A", "A">>, <<"d", "d", "D", "D">>, <<"D", "d", "D", "D">>,
   <<"2025-10-10", "2025-10-10", "2025-10-10", "2025-10-10">>,
   <<"2025-10-25", "2025-10-25", "2025-10-25", "2025-10-25">>,
   <<"20", "20", "20", "20">>,
   <<"LastName", "lastname", "LASTNAME", "Lastname">>,
   <<"FirstName", "firstname", "FIRSTNAME", "Firstname">>,
   <<"Program:", "program:", "PROGRAM:", "Program:">>,
   <<"Section:", "section:", "SECTION:", "Section:">>,
   <<"Date:", "date:", "DATE:", "Date:">>,
   <<"Description:", "description:", "DESCRIPTION:", "Description:">>,
   <<"3A", "3a", "3A", "3A">>, <<"7", "7", "7", "7">>, <<"10", "10", "10", "10">>, <<":", ":", ":", ":">>, <<"7,", "7,", "7,", "7,">>, <<"2025", "2025", "2025", "2025">>,
   <<"10/7/2025", "10/7/2025", "10/7/2025", "10/7/2025">>,
   <<"2025-10-07", "2025-10-07", "2025-10-07", "2025-10-07">>}

LowerWords == {w[1] : w \in Words}
\* Words that match [A-Z][a-z]+ as a whole, case-sensitively.
CapWords == {w[2] : w \in Words}
UpperWords == {w[3] : w \in Words}
AlphaWords == UNION {{w[1], w[2], w[3]} : w \in Words}
OtherTokens == {o[1] : o \in Others}
Tokens == AlphaWords \cup OtherTokens

WordOf(t) == CHOOSE w \in Words : t \in {w[1], w[2], w[3]}
OtherOf(t) == CHOOSE o \in Others : o[1] = t

\* str.lower(), str.upper() and str.title() of a token.
Lower(t) == IF t \in AlphaWords THEN WordOf(t)[1] ELSE OtherOf(t)[2]
Upper(t) == IF t \in AlphaWords THEN WordOf(t)[3] ELSE OtherOf(t)[3]
Title(t) == IF t \in AlphaWords THEN WordOf(t)[2] ELSE OtherOf(t)[4]

\* part[0].isupper()
FirstIsUpper(t) == t \in CapWords \cup UpperWords \cup {"LastName", "FirstName", "A", "D"}

\* A token as a pattern reads it: as written, in the three cases, and whether
\* it is a word, that is letters only and two or more.
Token(t) ==
  IF t \in AlphaWords
    THEN LET Of(w) == [raw |-> t, lower |-> w[1], title |-> w[2], upper |-> w[3], word |-> TRUE]
         IN  Of(WordOf(t))
    ELSE LET Of(o) == [raw |-> t, lower |-> o[2], upper |-> o[3], title |-> o[4], word |-> FALSE]
         IN  Of(OtherOf(t))

\* The token of every spelling of the vocabulary.
TokenTable == [t \in Tokens |-> Token(t)]

\* The tokens of a text, and the text of a run of tokens.
Scan(txt) == [i \in 1..Len(txt) |-> TokenTable[txt[i]]]
Spell(tokens) == [i \in 1..Len(tokens) |-> tokens[i].raw]

\* " ".join(words)
RECURSIVE Join(_)
Join(words) ==
  IF words = <<>> THEN ""
  ELSE IF Len(words) = 1 THEN words[1]
  ELSE words[1] \o " " \o Join(Tail(words))

\* words[:-k] and words[-k:]
ButLast(words, k) == SubSeq(words, 1, Len(words) - k)
LastK(words, k) == SubSeq(words, Len(words) - k + 1, Len(words))

\* All sequences over S of length at most n.
RECURSIVE SeqsUpTo(_, _)
SeqsUpTo(S, n) ==
  IF n = 0 THEN {<<>>}
  ELSE LET shorter == SeqsUpTo(S, n - 1)
       IN  shorter \cup {Append(s, x) : s \in {q \in shorter : Len(q) = n - 1}, x \in S}

-----------------------------------------------------------------------------
(* The three copies of the compound-last-name split *)

\* The particle list of the split in ocr_utils.py, enhanced_extraction.py and routes.py.
SplitParticles == {"de", "dela", "del", "van", "von"}

NoSplit == [found |-> FALSE, first_name |-> <<>>, last_name |-> <<>>]

\* extract_fields_from_text, narrative branch: name_parts -> first_name, last_name.
FieldsSplit(name_parts) ==
  LET n == Len(name_parts)
  IN  IF n >= 3 /\ Lower(name_parts[n - 2]) \in SplitParticles
        THEN [found |-> TRUE, last_name |-> LastK(name_parts, 3), first_name |-> ButLast(name_parts, 3)]
      ELSE IF n >= 2 /\ Lower(name_parts[n - 1]) \in SplitParticles
        THEN [found |-> TRUE, last_name |-> LastK(name_parts, 2), first_name |-> ButLast(name_parts, 2)]
      ELSE IF n >= 2
        THEN [found |-> TRUE, last_name |-> LastK(name_parts, 1), first_name |-> ButLast(name_parts, 1)]
      ELSE NoSplit

\* A slip of the merge: the particle is looked for only right before the last word.
OffenderSplitNoThird(name_parts) ==
  LET n == Len(name_parts)
  IN  IF n >= 2 /\ Lower(name_parts[n - 1]) \in SplitParticles
        THEN [found |-> TRUE, last_name |-> LastK(name_parts, 2), first_name |-> ButLast(name_parts, 2)]
      ELSE IF n >= 2
        THEN [found |-> TRUE, last_name |-> LastK(name_parts, 1), first_name |-> ButLast(name_parts, 1)]
      ELSE NoSplit

\* extract_all_info: the split of offenders[0].
OffenderSplit(name_parts) ==
  LET n == Len(name_parts)
  IN  IF n >= 3 /\ Lower(name_parts[n - 2]) \in SplitParticles
        THEN [found |-> TRUE, last_name |-> LastK(name_parts, 3), first_name |-> ButLast(name_parts, 3)]
      ELSE IF n >= 2 /\ Lower(name_parts[n - 1]) \in SplitParticles
        THEN [found |-> TRUE, last_name |-> LastK(name_parts, 2), first_name |-> ButLast(name_parts, 2)]
      ELSE IF n >= 2
        THEN [found |-> TRUE, last_name |-> LastK(name_parts, 1), first_name |-> ButLast(name_parts, 1)]
      ELSE NoSplit

\* upload_ocr_form: the split of offenders[0].
UploadSplit(name_parts) ==
  LET n == Len(name_parts)
  IN  IF n >= 3 /\ Lower(name_parts[n - 2]) \in SplitParticles
        THEN [found |-> TRUE, last_name |-> LastK(name_parts, 3), first_name |-> ButLast(name_parts, 3)]
      ELSE IF n >= 2 /\ Lower(name_parts[n - 1]) \in SplitParticles
        THEN [found |-> TRUE, last_name |-> LastK(name_parts, 2), first_name |-> ButLast(name_parts, 2)]
      ELSE IF n >= 2
        THEN [found |-> TRUE, last_name |-> LastK(name_parts, 1), first_name |-> ButLast(name_parts, 1)]
      ELSE NoSplit

\* extract_from_text: the split of offenders[0].
FromTextSplit(name_parts) ==
  LET n == Len(name_parts)
  IN  IF n >= 3 /\ Lower(name_parts[n - 2]) \in SplitParticles
        THEN [found |-> TRUE, last_name |-> LastK(name_parts, 3), first_name |-> ButLast(name_parts, 3)]
      ELSE IF n >= 2 /\ Lower(name_parts[n - 1]) \in SplitParticles
        THEN [found |-> TRUE, last_name |-> LastK(name_parts, 2), first_name |-> ButLast(name_parts, 2)]
      ELSE IF n >= 2
        THEN [found |-> TRUE, last_name |-> LastK(name_parts, 1), first_name |-> ButLast(name_parts, 1)]
      ELSE NoSplit

-----------------------------------------------------------------------------
(* NarrativeOCRService.extract_student_name_from_narrative, per match *)

\* false_positives, lower-cased, as word sequences.
FalsePositives ==
  {<<"information", "technology">>, <<"science", "in">>, <<"bachelor", "of">>,
   <<"category", "a">>, <<"smoking", "inside">>, <<"the", "student">>,
   <<"a", "student">>, <<"from", "section">>, <<"section", "from">>,
   <<"the", "janitor">>, <<"de", "la">>, <<"inside", "campus">>}

NarrativeParticles == {"de", "dela", "del", "san", "santa"}

\* str.lower() and str.upper() of a string of words
LowerSeq(words) == [i \in 1..Len(words) |-> Lower(words[i])]
UpperSeq(words) == [i \in 1..Len(words) |-> Upper(words[i])]

\* The words, in lower case, that end with the first word of a false
\* positive, and those that start with its second word.
WordsEnding(w) ==
  CASE w = "category" -> {"category"}
    [] w = "smoking" -> {"smoking"}
    [] w = "the" -> {"the"}
    [] w = "a" -> {"a", "ba", "bsba", "da", "dela", "la", "maria", "santa"}
    [] w = "from" -> {"from"}
    [] w = "section" -> {"section"}
    [] w = "de" -> {"de"}
    [] OTHER -> {}

WordsStarting(w) ==
  CASE w = "in" -> {"instructor"}
    [] w = "of" -> {"offender"}
    [] w = "a" -> {"a", "about"}
    [] w = "student" -> {"student"}
    [] w = "section" -> {"section"}
    [] w = "from" -> {"from"}
    [] w = "la" -> {"la", "last", "lastname", "late"}
    [] OTHER -> {}

\* fp.lower() in full_name.lower(), a test on substrings: a word that ends
\* with the first word of the phrase, then a word that starts with its second.
ContainsPhrase(words, phrase) ==
  \E i \in 1..(Len(words) - 1) :
     /\ Lower(words[i]) \in WordsEnding(phrase[1])
     /\ Lower(words[i + 1]) \in WordsStarting(phrase[2])

IsFalsePositive(full_name) == \E fp \in FalsePositives : ContainsPhrase(full_name, fp)

\* The checks and the split applied to one match of one pattern; found = FALSE
\* stands for `continue`.
NarrativeNameOf(full_name) ==
  LET name_parts == full_name
      n == Len(name_parts)
  IN  IF IsFalsePositive(full_name) THEN NoSplit
      ELSE IF n < 2 THEN NoSplit
      ELSE IF ~ \A i \in 1..n : FirstIsUpper(name_parts[i]) THEN NoSplit
      ELSE IF n = 2
        THEN [found |-> TRUE, first_name |-> <<name_parts[1]>>, last_name |-> <<name_parts[2]>>]
      ELSE IF n = 3
        THEN IF Lower(name_parts[2]) \in NarrativeParticles
               THEN [found |-> TRUE, first_name |-> <<name_parts[1]>>, last_name |-> Tail(name_parts)]
               ELSE [found |-> TRUE, first_name |-> SubSeq(name_parts, 1, 2), last_name |-> <<name_parts[3]>>]
      ELSE IF \E i \in 2..n : Lower(name_parts[i]) \in NarrativeParticles
        THEN [found |-> TRUE, first_name |-> <<name_parts[1]>>, last_name |-> Tail(name_parts)]
      ELSE [found |-> TRUE, first_name |-> SubSeq(name_parts, 1, 2), last_name |-> SubSeq(name_parts, 3, n)]

-----------------------------------------------------------------------------
(* extract_fields_from_text of ocr_utils.py.  The patterns read the tokens  *)
(* of the text: S with its line breaks, F without them.                      *)

Min(S) == CHOOSE x \in S : \A y \in S : x <= y
Max(S) == CHOOSE x \in S : \A y \in S : x >= y

\* The text with its line breaks taken out: what a pattern sees whose blanks are
\* all \s+ or \s*, which match a line break as they match a blank.
Flat(txt) == SelectSeq(txt, LAMBDA t : t # NL)
NoBreaks(S) == SelectSeq(S, LAMBDA t : t.raw # NL)

\* str.strip() of a text: the line breaks at its two ends are dropped.
RECURSIVE Strip(_)
Strip(txt) ==
  IF txt = <<>> THEN <<>>
  ELSE IF Head(txt) = NL THEN Strip(Tail(txt))
  ELSE IF txt[Len(txt)] = NL THEN Strip(ButLast(txt, 1))
  ELSE txt

\* a or b of two strings
Or(a, b) == IF a # <<>> THEN a ELSE b

\* The first value of a cascade that is not empty, <<>> if there is none.
FirstNonEmpty(values) ==
  LET hits == {k \in DOMAIN values : values[k] # <<>>}
  IN  IF hits = {} THEN <<>> ELSE values[Min(hits)]

\* Words of fewer than four letters, and of exactly four (lower case).
ShortWords ==
  {"de", "la", "del", "van", "von", "san", "da", "di", "the", "was", "is", "who",
   "on", "doe", "it", "ba", "ge"}
FourLetterWords ==
  {"juan", "cruz", "john", "dela", "from", "were", "vape", "late", "bsit", "bsba", "with",
   "last", "date"}

\* A word that [A-Z][a-z]+[A-Z][a-z]+ matches under re.IGNORECASE: four letters or more.
IsLong(t) == t.word /\ t.lower \notin ShortWords

\* The label tokens that end with their colon.
HasColon(t) == t.lower \in {"lastname:", "firstname:", "program:", "section:", "date:", "description:"}

\* r"<Label>[:\-]?\s*([^\n\r]+)" with re.IGNORECASE, then .strip(): the label,
\* blanks and line breaks, then the rest of the line that follows. With
\* nothing left to capture the optional colon is given back and captured.
\* 'last' or 'first' and 'named' read as the label and a d.
TemplateCapture(S, labels) ==
  LET after(i) == {k \in (i + 1)..Len(S) : S[k].raw # NL}
      named(i) == after(i) # {} /\ S[Min(after(i))].lower = "named"
      at == {i \in 1..Len(S) :
               /\ S[i].lower \in labels
               /\ IF S[i].lower \in {"last", "first"} THEN named(i)
                  ELSE HasColon(S[i]) \/ after(i) # {}}
      line(start) == LET stops == {k \in start..Len(S) : k = Len(S) \/ S[k + 1].raw = NL}
                     IN  Spell(SubSeq(S, start, Min(stops)))
  IN  IF at = {} THEN <<>>
      ELSE IF S[Min(at)].lower \in {"last", "first"}
        THEN LET n == Min(after(Min(at)))
                 d == IF S[n].raw = "NAMED" THEN "D" ELSE "d"
             IN  IF n = Len(S) \/ S[n + 1].raw = NL THEN <<d>> ELSE <<d>> \o line(n + 1)
      ELSE IF after(Min(at)) = {} THEN <<":">>
      ELSE line(Min(after(Min(at))))

\* The value a template pattern captures in a text.
TemplateValue(txt, labels) == TemplateCapture(Scan(txt), labels)

\* r"Description[:\-]?\s*([\s\S]*?)(?=\n\n|\Z)", then .strip(): up to the first
\* empty line or the end of the text.
DescriptionValue(S) ==
  LET at == {i \in 1..Len(S) : S[i].lower \in {"description:", "description"}}
  IN  IF at = {} THEN <<>>
      ELSE LET after == {k \in (Min(at) + 1)..Len(S) : S[k].raw # NL}
           IN  IF after = {} THEN <<>>
               ELSE LET start == Min(after)
                        stops == {k \in start..Len(S) :
                                    \/ k = Len(S)
                                    \/ (k + 2 <= Len(S) /\ S[k + 1].raw = NL /\ S[k + 2].raw = NL)}
                    IN  Strip(Spell(SubSeq(S, start, Min(stops))))

NoCapture == [matched |-> FALSE, name |-> <<>>]
Capture(tokens) == [matched |-> TRUE, name |-> Spell(tokens)]

\* The first capture of a cascade that matched, NoCapture if none did.
FirstMatched(captures) ==
  LET hits == {k \in DOMAIN captures : captures[k].matched}
  IN  IF hits = {} THEN NoCapture ELSE captures[Min(hits)]

\* keyword  W W  ender: the shape of name_patterns[0], [2] and [3], the keyword
\* ending at token b.
TwoWordsThen(F, b, enders) ==
  /\ b + 3 <= Len(F)
  /\ F[b + 1].word
  /\ F[b + 2].word
  /\ F[b + 3].lower \in enders

\* name_patterns[0]: "Faculty Member X Y," or "Staff Member X Y,".
NamePattern1(F) ==
  LET at == {i \in 1..Len(F) : /\ i + 1 <= Len(F)
                               /\ F[i].lower \in {"faculty", "staff"}
                               /\ F[i + 1].lower = "member"
                               /\ TwoWordsThen(F, i + 1, {","})}
  IN  IF at = {} THEN NoCapture ELSE Capture(SubSeq(F, Min(at) + 2, Min(at) + 3))

FieldsNameParticles == {"de", "dela", "del", "da", "di", "van", "von"}

\* The ends of the name name_patterns[1] can capture after the "student" at i:
\* words only, "from" next; the first word is followed by the rest without a
\* blank unless a particle comes second, so it has four letters or more (it is
\* then split in two) or the second word is a particle and a third follows.
StudentNameEnds(F, i) ==
  {j \in (i + 1)..(Len(F) - 1) :
     /\ \A k \in (i + 1)..j : F[k].word
     /\ F[j + 1].lower = "from"
     /\ \/ IsLong(F[i + 1])
        \/ (j >= i + 3 /\ F[i + 2].lower \in FieldsNameParticles)}

\* name_patterns[1]: "student <name> from", the longest name (greedy).
NamePattern2(F) ==
  LET at == {i \in 1..Len(F) : F[i].lower = "student" /\ StudentNameEnds(F, i) # {}}
  IN  IF at = {} THEN NoCapture
      ELSE Capture(SubSeq(F, Min(at) + 1, Max(StudentNameEnds(F, Min(at)))))

\* name_patterns[2]: "staff member X Y from" or "employee X Y from".
NamePattern3(F) ==
  LET viaStaff == {i \in 1..Len(F) : /\ i + 1 <= Len(F)
                                     /\ F[i].lower = "staff"
                                     /\ F[i + 1].lower = "member"
                                     /\ TwoWordsThen(F, i + 1, {"from"})}
      viaEmployee == {i \in 1..Len(F) : F[i].lower = "employee" /\ TwoWordsThen(F, i, {"from"})}
      at == viaStaff \cup viaEmployee
  IN  IF at = {} THEN NoCapture
      ELSE IF Min(at) \in viaStaff THEN Capture(SubSeq(F, Min(at) + 2, Min(at) + 3))
      ELSE Capture(SubSeq(F, Min(at) + 1, Min(at) + 2))

\* name_patterns[3]: "instructor X Y from" or "instructor X Y,".
NamePattern4(F) ==
  LET at == {i \in 1..Len(F) : F[i].lower = "instructor" /\ TwoWordsThen(F, i, {"from", ","})}
  IN  IF at = {} THEN NoCapture ELSE Capture(SubSeq(F, Min(at) + 1, Min(at) + 2))

\* The loop over name_patterns: the first pattern that matches, and the break.
NarrativeNameMatch(F) ==
  FirstMatched(<<NamePattern1(F), NamePattern2(F), NamePattern3(F), NamePattern4(F)>>)

\* re.sub(r'\s+(from|was|were|,)\s*$', '', full_name, flags=re.IGNORECASE).strip()
DropTrailingWord(full_name) ==
  IF Len(full_name) >= 2 /\ Lower(full_name[Len(full_name)]) \in {"from", "was", "were", ","}
    THEN ButLast(full_name, 1)
    ELSE full_name

\* Tokens that BS[A-Z]{2,4} matches under re.IGNORECASE.
IsBS(t) == t.word /\ t.lower \in {"bsit", "bsba"}

\* program_patterns, in order; the first that matches sets the program.
ProgramPattern1(F) ==
  LET direct == {i \in 1..Len(F) : /\ i + 2 <= Len(F)
                                   /\ F[i].lower = "from"
                                   /\ IsBS(F[i + 1])
                                   /\ F[i + 2].lower = "department"}
      viaThe == {i \in 1..Len(F) : /\ i + 3 <= Len(F)
                                   /\ F[i].lower = "from"
                                   /\ F[i + 1].lower = "the"
                                   /\ IsBS(F[i + 2])
                                   /\ F[i + 3].lower = "department"}
      at == direct \cup viaThe
  IN  IF at = {} THEN <<>>
      ELSE IF Min(at) \in viaThe THEN <<F[Min(at) + 2].raw>> ELSE <<F[Min(at) + 1].raw>>

ProgramPattern2(F) ==
  LET at == {i \in 1..Len(F) : i + 1 <= Len(F) /\ F[i].lower = "from" /\ IsBS(F[i + 1])}
  IN  IF at = {} THEN <<>> ELSE <<F[Min(at) + 1].raw>>

ProgramPattern3(F) ==
  LET direct == {i \in 1..Len(F) : /\ i + 2 <= Len(F)
                                   /\ F[i].lower = "from"
                                   /\ F[i + 1].word
                                   /\ F[i + 2].lower = "department"}
      viaThe == {i \in 1..Len(F) : /\ i + 3 <= Len(F)
                                   /\ F[i].lower = "from"
                                   /\ F[i + 1].lower = "the"
                                   /\ F[i + 2].word
                                   /\ F[i + 3].lower = "department"}
      at == direct \cup viaThe
  IN  IF at = {} THEN <<>>
      ELSE IF Min(at) \in viaThe THEN <<F[Min(at) + 2].raw>> ELSE <<F[Min(at) + 1].raw>>

\* Tokens that are letters only; those of one letter.
IsLetters(t) == t.word \/ t.raw \in {"A", "d", "D", "LastName", "FirstName"}
OneLetter == {"A", "d", "D"}

\* The letters a token starts with.
LettersPrefix(t) ==
  CASE IsLetters(t) -> t.raw
    [] t.raw = "LastName:" -> "LastName"
    [] t.raw = "FirstName:" -> "FirstName"
    [] t.raw = "Program:" -> "Program"
    [] t.raw = "Section:" -> "Section"
    [] t.raw = "Date:" -> "Date"
    [] t.raw = "Description:" -> "Description"
    [] OTHER -> ""

ProgramPattern4(F) ==
  LET at == {i \in 1..Len(F) : /\ i + 1 <= Len(F)
                               /\ F[i].lower \in {"program", "course", "department", "program:"}
                               /\ LettersPrefix(F[i + 1]) \notin OneLetter \cup {""}}
  IN  IF at = {} THEN <<>> ELSE <<LettersPrefix(F[Min(at) + 1])>>

NarrativeProgram(F) ==
  FirstNonEmpty(<<ProgramPattern1(F), ProgramPattern2(F), ProgramPattern3(F), ProgramPattern4(F)>>)

\* [A-Z]{2,4} at a word boundary: a word of two to four capital letters.
IsUpperCode(t) == t.word /\ t.raw = t.upper /\ t.lower \in ShortWords \cup FourLetterWords

\* \d{1,3}[A-Z]?\b at the start of a token: what it captures, "" if nothing.
DigitCode(t) ==
  CASE t = "3A" -> "3A" [] t = "7" -> "7" [] t = "7," -> "7" [] t = "10" -> "10" [] t = "20" -> "20"
    [] t = "10/7/2025" -> "10" [] OTHER -> ""

\* section_patterns[0], r"\b([A-Z]{2,4}[-\s]?\d{1,3}[A-Z]?)\b", case-sensitive:
\* a capital code, one blank or line break, a number with an optional letter.
\* section_patterns[1] captures from a "Section" label what the template
\* pattern captures up to a comma, so it finds nothing the template missed.
NarrativeSection(S) ==
  LET spaced == {i \in 1..Len(S) : /\ i + 1 <= Len(S)
                                   /\ IsUpperCode(S[i])
                                   /\ S[i + 1].raw # NL
                                   /\ DigitCode(S[i + 1].raw) # ""}
      broken == {i \in 1..Len(S) : /\ i + 2 <= Len(S)
                                   /\ IsUpperCode(S[i])
                                   /\ S[i + 1].raw = NL
                                   /\ DigitCode(S[i + 2].raw) # ""}
      at == spaced \cup broken
  IN  IF at = {} THEN <<>>
      ELSE IF Min(at) \in spaced THEN <<S[Min(at)].raw, DigitCode(S[Min(at) + 1].raw)>>
      ELSE <<S[Min(at)].raw, NL, DigitCode(S[Min(at) + 2].raw)>>

\* \d{1,2},? and \d{4} at the start of a token; the two one-token dates.
IsDay(t) == t \in {"7", "7,", "10", "20"}
IsoDates == {"2025-10-07", "2025-10-10", "2025-10-25"}
YearOf(t) == IF t \in IsoDates \cup {"2025"} THEN "2025" ELSE ""
IsSlashDate(t) == t = "10/7/2025"
IsIsoDate(t) == t \in IsoDates

\* The positions in S of the tokens of NoBreaks(S).
Positions(S) == SelectSeq([i \in 1..Len(S) |-> i], LAMBDA i : S[i].raw # NL)

\* date_patterns, in order, with re.IGNORECASE: any word, a day and a year
\* (the line breaks between them are captured too); d/m/yyyy; yyyy-mm-dd.
NarrativeDate(S) ==
  LET F == NoBreaks(S)
      at == Positions(S)
      named == {i \in 1..Len(F) : /\ i + 2 <= Len(F)
                                  /\ F[i].word
                                  /\ IsDay(F[i + 1].raw)
                                  /\ YearOf(F[i + 2].raw) # ""}
      slash == {i \in 1..Len(F) : IsSlashDate(F[i].raw)}
      iso == {i \in 1..Len(F) : IsIsoDate(F[i].raw)}
  IN  IF named # {}
        THEN Spell(SubSeq(S, at[Min(named)], at[Min(named) + 2] - 1)) \o <<YearOf(F[Min(named) + 2].raw)>>
      ELSE IF slash # {} THEN <<F[Min(slash)].raw>>
      ELSE IF iso # {} THEN <<F[Min(iso)].raw>>
      ELSE <<>>

\* text.split('\n'), each line stripped.
RECURSIVE Lines(_)
Lines(S) ==
  LET breaks == {i \in 1..Len(S) : S[i].raw = NL}
  IN  IF breaks = {} THEN <<S>>
      ELSE <<SubSeq(S, 1, Min(breaks) - 1)>> \o Lines(SubSeq(S, Min(breaks) + 1, Len(S)))

\* any(header in line.upper() for header in [...]): over this vocabulary a
\* header is a substring exactly when it is a word of the line.
ResetHeaders == {"report", "memo", "incident"}
HasResetHeader(line) == \E i \in 1..Len(line) : line[i].lower \in ResetHeaders
HasHeader(line) ==
  \/ HasResetHeader(line)
  \/ \E i \in 1..Len(line) : line[i].lower = "disciplinary"
  \/ \E i \in 1..(Len(line) - 1) : line[i].lower = "complaint" /\ line[i + 1].lower = "form"

\* The loop over the lines: body_lines, joined, after the lines from k on,
\* entered with skip_count.
RECURSIVE BodyLines(_, _, _)
BodyLines(lines, k, skip_count) ==
  IF k > Len(lines) THEN <<>>
  ELSE LET line == lines[k]
       IN  IF line # <<>> /\ ~HasHeader(line)
             THEN IF skip_count >= 1
                    THEN Spell(line) \o BodyLines(lines, k + 1, skip_count)
                    ELSE BodyLines(lines, k + 1, skip_count + 1)
           ELSE IF line # <<>> /\ HasResetHeader(line)
             THEN BodyLines(lines, k + 1, 0)
           ELSE BodyLines(lines, k + 1, skip_count)

\* The description when the text has no Description field.
BodyDescription(S) == Or(BodyLines(Lines(S), 1, 0), Strip(Spell(S)))

\* The name fields: those of the template, or the split of the narrative
\* name m when the template gave neither.
NameFields(last0, first0, m) ==
  LET Names(split) == [last_name |-> IF split.found THEN split.last_name ELSE last0,
                       first_name |-> IF split.found THEN split.first_name ELSE first0]
  IN  Names(IF first0 = <<>> /\ last0 = <<>> /\ m.matched
              THEN FieldsSplit(DropTrailingWord(m.name))
              ELSE NoSplit)

\* The fields of the tokens S: each template value, or what the narrative
\* patterns find where the template value is empty.
FieldsOf(S, F, names) ==
  [last_name |-> names.last_name,
   first_name |-> names.first_name,
   program |-> Or(TemplateCapture(S, {"program:", "program"}), NarrativeProgram(F)),
   section |-> Or(TemplateCapture(S, {"section:", "section"}), NarrativeSection(S)),
   date |-> Or(TemplateCapture(S, {"date:", "date"}), NarrativeDate(S)),
   description |-> Or(DescriptionValue(S), BodyDescription(S))]

\* extract_fields_from_text(text)
extract_fields_from_text(txt) ==
  LET Fields(S, F) ==
        FieldsOf(S, F, NameFields(TemplateCapture(S, {"lastname:", "lastname", "last"}),
                                  TemplateCapture(S, {"firstname:", "firstname", "first"}),
                                  NarrativeNameMatch(F)))
      Scanned(S) == Fields(S, NoBreaks(S))
  IN  Scanned(Scan(txt))

-----------------------------------------------------------------------------
(* identify_offender_from_text of ocr_utils.py *)

\* [A-Z][a-z]+ as a whole token (case-sensitive).
IsCap(t) == t.word /\ t.raw = t.title

\* What [A-Z][a-z]+ matches at the start of a token, "" if nothing: the token
\* itself, or the first word of a label.
CapStart(t) ==
  CASE IsCap(t) -> t.raw
    [] t.raw = "LastName:" -> "Last"
    [] t.raw = "FirstName:" -> "First"
    [] t.raw = "Program:" -> "Program"
    [] t.raw = "Section:" -> "Section"
    [] t.raw = "Date:" -> "Date"
    [] t.raw = "Description:" -> "Description"
    [] OTHER -> ""

\* The same under re.IGNORECASE: the letters a token starts with.
WordStart(t) ==
  CASE t.word -> t.raw
    [] t.raw = "LastName:" -> "LastName"
    [] t.raw = "FirstName:" -> "FirstName"
    [] t.raw = "Program:" -> "Program"
    [] t.raw = "Section:" -> "Section"
    [] t.raw = "Date:" -> "Date"
    [] t.raw = "Description:" -> "Description"
    [] OTHER -> ""

Labels == {"LastName:", "FirstName:", "Program:", "Section:", "Date:", "Description:"}
HasLowerLetter(t) == t \in LowerWords \cup CapWords \cup Labels \cup {"LastName", "FirstName", "d"}
HasUpperLetter(t) ==
  t \in CapWords \cup UpperWords \cup Labels \cup {"LastName", "FirstName", "3A", "A", "D"}
HasDigit(t) ==
  t \in {"3A", "7", "7,", "10", "20", "2025", "10/7/2025", "2025-10-07", "2025-10-10", "2025-10-25"}

\* str.isupper(): a cased character, and no lower-case one.
IsUpperStr(words) ==
  /\ \E i \in 1..Len(words) : HasUpperLetter(words[i])
  /\ \A i \in 1..Len(words) : ~HasLowerLetter(words[i])

\* str.title()
TitleSeq(words) == [i \in 1..Len(words) |-> Title(words[i])]

\* if value.isupper(): value = value.title()
TitleIfUpper(value) == IF IsUpperStr(value) THEN TitleSeq(value) ELSE value

\* Pattern 1, lines 303-317: both labels present, each value title-cased when
\* all upper case, "<first> <last>".
TemplateOffenders(S) ==
  LET Named(last_name, first_name) ==
        IF last_name # <<>> /\ first_name # <<>>
          THEN {TitleIfUpper(first_name) \o TitleIfUpper(last_name)}
          ELSE {}
  IN  Named(TemplateCapture(S, {"lastname:", "lastname", "last"}),
            TemplateCapture(S, {"firstname:", "firstname", "first"}))

ContextKeywords == {"student", "offender", "faculty", "staff", "employee"}
OffenderParticles == {"de", "dela", "del", "van", "von"}

\* Cap(?:\s+(?:particle)?\s*Cap)+, greedy: the last token taken by a name whose
\* last taken token so far is k. A lower-case particle is taken with the
\* capitalised word that follows it (Da and Di are capitalised words
\* themselves); when cut is allowed the last word may be the start of a token.
RECURSIVE ChainEnd(_, _, _)
ChainEnd(F, k, cut) ==
  IF k + 1 <= Len(F) /\ IsCap(F[k + 1]) THEN ChainEnd(F, k + 1, cut)
  ELSE IF k + 2 <= Len(F) /\ F[k + 1].raw \in OffenderParticles /\ IsCap(F[k + 2])
    THEN ChainEnd(F, k + 2, cut)
  ELSE IF cut /\ k + 1 <= Len(F) /\ CapStart(F[k + 1]) # "" THEN k + 1
  ELSE IF cut /\ k + 2 <= Len(F) /\ F[k + 1].raw \in OffenderParticles /\ CapStart(F[k + 2]) # ""
    THEN k + 2
  ELSE k

\* Cap(?:\s+Cap){1,3}, greedy: the last token of a run that has n words at k.
RECURSIVE RunEnd(_, _, _, _)
RunEnd(F, k, n, cut) ==
  IF n < 4 /\ k + 1 <= Len(F) /\ IsCap(F[k + 1]) THEN RunEnd(F, k + 1, n + 1, cut)
  ELSE IF cut /\ n < 4 /\ k + 1 <= Len(F) /\ CapStart(F[k + 1]) # "" THEN k + 1
  ELSE k

\* The text matched from token s to token e of NoBreaks(S), line breaks
\* included, its last word as the pattern takes it.
Matched(S, s, e, last) ==
  LET at == Positions(S) IN Spell(SubSeq(S, at[s], at[e] - 1)) \o <<last>>

\* context_patterns[0]: keyword, an optional "named", then a name.
ContextNames1(S) ==
  LET F == NoBreaks(S)
      start(i) == IF i + 1 <= Len(F) /\ F[i + 1].raw = "named" THEN i + 2 ELSE i + 1
      at == {i \in 1..Len(F) : /\ F[i].raw \in ContextKeywords
                               /\ start(i) <= Len(F)
                               /\ IsCap(F[start(i)])
                               /\ ChainEnd(F, start(i), TRUE) > start(i)}
      Name(s, e) == Matched(S, s, e, CapStart(F[e]))
  IN  {Name(start(i), ChainEnd(F, start(i), TRUE)) : i \in at}

\* context_patterns[1]: keyword, then two to four capitalised words.
ContextNames2(S) ==
  LET F == NoBreaks(S)
      at == {i \in 1..Len(F) : /\ F[i].raw \in ContextKeywords
                               /\ i + 1 <= Len(F)
                               /\ IsCap(F[i + 1])
                               /\ RunEnd(F, i + 1, 1, TRUE) > i + 1}
      Name(s, e) == Matched(S, s, e, CapStart(F[e]))
  IN  {Name(i + 1, RunEnd(F, i + 1, 1, TRUE)) : i \in at}

ActionVerbs1 ==
  {"was", "were", "is", "committed", "caught", "violated", "engaged", "participated"}
ActionVerbs2 == {"who", "was", "were", "committed", "caught", "violated"}

\* A name that ends at token e is followed by one of the verbs.
ThenVerb(F, s, e, verbs) == e > s /\ e + 1 <= Len(F) /\ F[e + 1].raw \in verbs

\* action_patterns[0] matches at s: a name of whole words, then a verb.
ActionAt1(F, s) == IsCap(F[s]) /\ ThenVerb(F, s, ChainEnd(F, s, FALSE), ActionVerbs1)

\* re.findall of action_patterns[0] from token pos on: leftmost match, then on
\* from behind it.
RECURSIVE ActionNames1(_, _)
ActionNames1(S, pos) ==
  LET F == NoBreaks(S)
      starts == {s \in pos..Len(F) : ActionAt1(F, s)}
      Names(s, e) == {Matched(S, s, e, F[e].raw)} \cup ActionNames1(S, e + 2)
  IN  IF starts = {} THEN {} ELSE Names(Min(starts), ChainEnd(F, Min(starts), FALSE))

\* action_patterns[1] matches at s: two to four capitalised words, then a verb.
ActionAt2(F, s) == IsCap(F[s]) /\ ThenVerb(F, s, RunEnd(F, s, 1, FALSE), ActionVerbs2)

RECURSIVE ActionNames2(_, _)
ActionNames2(S, pos) ==
  LET F == NoBreaks(S)
      starts == {s \in pos..Len(F) : ActionAt2(F, s)}
      Names(s, e) == {Matched(S, s, e, F[e].raw)} \cup ActionNames2(S, e + 2)
  IN  IF starts = {} THEN {} ELSE Names(Min(starts), RunEnd(F, Min(starts), 1, FALSE))

AboutNouns == {"report", "complaint", "letter", "document"}
AboutWords == {"about", "regarding", "concerning"}

\* Under re.IGNORECASE every word is [A-Z][a-z]+: the name runs on over all
\* the words that follow.
RECURSIVE WordsEnd(_, _)
WordsEnd(F, k) ==
  IF k + 1 <= Len(F) /\ F[k + 1].word THEN WordsEnd(F, k + 1)
  ELSE IF k + 1 <= Len(F) /\ WordStart(F[k + 1]) # "" THEN k + 1
  ELSE k

\* The first token of the name when about_pattern matches at i, 0 otherwise.
AboutStart(F, i) ==
  LET j == IF i + 1 <= Len(F) /\ F[i + 1].lower \in AboutWords THEN i + 1
           ELSE IF i + 2 <= Len(F) /\ F[i + 1].lower = "is" /\ F[i + 2].lower \in AboutWords
             THEN i + 2
           ELSE 0
  IN  IF /\ F[i].lower \in AboutNouns
         /\ j # 0
         /\ j + 1 <= Len(F)
         /\ F[j + 1].word
         /\ WordsEnd(F, j + 1) > j + 1
        THEN j + 1
        ELSE 0

\* re.findall of about_pattern from token pos on.
RECURSIVE AboutNames(_, _)
AboutNames(S, pos) ==
  LET F == NoBreaks(S)
      at == {i \in pos..Len(F) : AboutStart(F, i) # 0}
      Names(s, e) == {Matched(S, s, e, WordStart(F[e]))} \cup AboutNames(S, e + 1)
      From(s) == Names(s, WordsEnd(F, s))
  IN  IF at = {} THEN {} ELSE From(AboutStart(F, Min(at)))

NotAName ==
  {<<"the", "student">>, <<"the", "offender">>, <<"this", "report">>, <<"this", "letter">>}

\* Every string a pattern of identify_offender_from_text captures.
FoundNames(S) ==
  TemplateOffenders(S) \cup ContextNames1(S) \cup ContextNames2(S)
    \cup ActionNames1(S, 1) \cup ActionNames2(S, 1) \cup AboutNames(S, 1)

\* The candidates before the conversion to a list, filtered as lines 372-379
\* filter them: two words or more, no digit, not a known false positive.
\* quoted_pattern needs a quote or a parenthesis, which no token here has.
OffenderSet(txt) ==
  {name \in FoundNames(Scan(txt)) : /\ Len(Flat(name)) >= 2
                                    /\ \A i \in 1..Len(name) : ~HasDigit(name[i])
                                    /\ LowerSeq(name) \notin NotAName}

-----------------------------------------------------------------------------
(* OCRService of app/services/ocr_service.py.  Its patterns are matched on    *)
(* characters, with re.IGNORECASE: the tables of this section say, token by   *)
(* token, where a keyword of a pattern occurs and what a character class      *)
(* takes of a token.  C is the cleaned text, as tokens.                       *)

\* An Optional[str]: None, or a string (a sequence of words).
None == [some |-> FALSE, value |-> <<>>]
Some(words) == [some |-> TRUE, value |-> words]
\* The truth value Python gives it: neither None nor ''.
Truthy(opt) == opt.some /\ opt.value # <<>>

\* What _clean_text makes of a token: a line break becomes a blank, as does
\* every character outside [\w\s.,:;!?()-], here the slashes of a date.
CleanToken(t) ==
  CASE t = NL -> <<>>
    [] t = "10/7/2025" -> <<"10", "7", "2025">>
    [] OTHER -> <<t>>

\* _clean_text(text)
RECURSIVE _clean_text(_)
_clean_text(txt) ==
  IF txt = <<>> THEN <<>> ELSE CleanToken(Head(txt)) \o _clean_text(Tail(txt))

\* The letters and digits a token starts with.
AlnumPrefix(t) ==
  CASE t.raw \in {"3A", "7", "10", "20", "2025"} -> t.raw
    [] t.raw = "7," -> "7"
    [] t.raw \in {"2025-10-07", "2025-10-10", "2025-10-25"} -> "2025"
    [] OTHER -> LettersPrefix(t)

\* What a capture class takes of a token: [A-Za-z\s,\.] for a name,
\* [A-Za-z\s&()] for a program, department or position, [A-Za-z0-9\s] for a
\* section.
ClassPrefix(class, t) ==
  CASE class = "name" -> IF t.raw = "," THEN "," ELSE LettersPrefix(t)
    [] class = "words" -> LettersPrefix(t)
    [] class = "section" -> AlnumPrefix(t)

\* The tokens, in lower case, that the keyword alternatives of a pattern occur in.
KeywordTokens(pattern) ==
  CASE pattern = "student" -> {"student"}
    [] pattern = "faculty" -> {"faculty", "instructor"}
    [] pattern = "staff" -> {"staff", "employee"}
    [] pattern = "name" -> {"named", "lastname:", "firstname:", "lastname", "firstname"}
    [] pattern = "program" -> {"program", "course", "program:"}
    [] pattern = "BS" -> {"ba", "bsit", "bsba"}
    [] pattern = "section" -> {"section", "section:"}
    [] pattern = "department" -> {"department"}
    [] pattern = "category" -> {"category"}
    [] pattern = "description" -> {"description", "description:"}
    [] pattern = "report" -> {"report"}
    [] pattern = "complaint" -> {"complaint"}

HasKeyword(pattern, t) == t.lower \in KeywordTokens(pattern)

\* What is left of a token behind the keyword: nothing, its colon, or letters.
KeywordRest(t) ==
  CASE t \in {"named", "Named"} -> "d"
    [] t = "NAMED" -> "D"
    [] t \in {"bsit", "Bsit"} -> "it"
    [] t = "BSIT" -> "IT"
    [] t \in {"bsba", "Bsba"} -> "ba"
    [] t = "BSBA" -> "BA"
    [] t \in Labels -> ":"
    [] OTHER -> ""

\* The tokens, in lower case, by their number of characters.
TokensOfLength ==
  <<{",", ":", "a", "d", "7", NL},
    {"de", "la", "da", "di", "is", "on", "it", "ba", "ge", "3a", "7,", "10", "20"},
    {"del", "van", "von", "san", "the", "was", "who", "doe"},
    FourLetterWords \cup {"2025"},
    {"maria", "pedro", "santa", "staff", "named", "about", "guard", "first", "date:"},
    {"miguel", "member", "caught", "report", "letter", "course"},
    {"rosario", "student", "faculty", "engaged", "program", "october", "oktubre",
     "smoking", "section"},
    {"offender", "employee", "violated", "document", "cheating", "category", "business",
     "program:", "section:", "lastname"},
    {"committed", "complaint", "regarding", "pandadaya", "lastname:", "firstname", "10/7/2025"},
    {"instructor", "department", "concerning", "management", "firstname:", "2025-10-07",
     "2025-10-10", "2025-10-25"},
    {"description"},
    {"participated", "description:"}>>

\* len() of a token.
CharLen(t) ==
  LET Of(lower) == CHOOSE n \in 1..Len(TokensOfLength) : lower \in TokensOfLength[n]
  IN  Of(Lower(t))

\* len() of the words joined by single blanks.
RECURSIVE StrLen(_)
StrLen(words) ==
  IF words = <<>> THEN 0
  ELSE CharLen(Head(words)) + (IF Len(words) = 1 THEN 0 ELSE 1 + StrLen(Tail(words)))

\* What a capture class takes from token k on: whole tokens, then the start
\* of the first token it does not take whole.
RECURSIVE Take(_, _, _)
Take(class, C, k) ==
  IF k > Len(C) THEN <<>>
  ELSE LET Taken(piece) == IF piece = C[k].raw THEN <<piece>> \o Take(class, C, k + 1)
                           ELSE IF piece # "" THEN <<piece>>
                           ELSE <<>>
       IN  Taken(ClassPrefix(class, C[k]))

\* keyword \s*:?\s*(class+), stripped: the capture of the match whose keyword
\* is in token i.
CaptureAt(class, C, i) ==
  LET After(rest) == IF rest \in {"", ":"} THEN Take(class, C, i + 1)
                     ELSE <<rest>> \o Take(class, C, i + 1)
  IN  After(KeywordRest(C[i].raw))

\* The loop over re.finditer(pattern, text) from token pos on: the first
\* capture that is more than lo and, unless hi is 0, at most hi characters
\* long; <<>> if none.
\* A match that is turned down has consumed its capture.
RECURSIVE FirstCapture(_, _, _, _, _, _)
FirstCapture(pattern, class, C, pos, lo, hi) ==
  LET hits == {i \in pos..Len(C) : HasKeyword(pattern, C[i])}
      Fits(n) == n > lo /\ (hi = 0 \/ n <= hi)
      Accept(i, capture) ==
        IF capture # <<>> /\ Fits(StrLen(capture))
          THEN capture
          ELSE FirstCapture(pattern, class, C, i + 1 + Len(Take(class, C, i + 1)), lo, hi)
  IN  IF hits = {} THEN <<>> ELSE Accept(Min(hits), CaptureAt(class, C, Min(hits)))

\* r'([A-Z][a-z]+\s+[A-Z][a-z]+)': a word, a blank, and the letters the next
\* token starts with, two or more.
TwoWords(C) ==
  LET at == {i \in 1..(Len(C) - 1) : /\ IsLetters(C[i]) /\ C[i].raw \notin OneLetter
                                     /\ LettersPrefix(C[i + 1]) \notin OneLetter \cup {""}}
  IN  IF at = {} THEN <<>> ELSE <<C[Min(at)].raw, LettersPrefix(C[Min(at) + 1])>>

\* _extract_name, _extract_name_faculty, _extract_name_staff: the capture of
\* the first pattern that gives one of more than three characters. A match of
\* 'last name' or 'first name' is behind a match of 'name' with the same
\* capture, so the third and fourth pattern add nothing.
NameCapture(C, entity) ==
  FirstNonEmpty(<<FirstCapture(entity, "name", C, 1, 3, 0),
                  FirstCapture("name", "name", C, 1, 3, 0),
                  TwoWords(C)>>)

\* The first and the last word of the capture; None when nothing was found.
_extract_name(C, entity) ==
  LET Parts(name_parts) ==
        IF name_parts = <<>> THEN [first_name |-> None, last_name |-> None]
        ELSE IF Len(name_parts) >= 2
          THEN [first_name |-> Some(<<name_parts[1]>>),
                last_name |-> Some(<<name_parts[Len(name_parts)]>>)]
        ELSE [first_name |-> Some(<<name_parts[1]>>), last_name |-> Some(<<>>)]
  IN  Parts(NameCapture(C, entity))

\* A cascade ends with a value, with None, or in match.group(1) of a pattern
\* that has no group: IndexError.
Raised == [raised |-> TRUE, value |-> None]
Value(opt) == [raised |-> FALSE, value |-> opt]

\* The tokens, in lower case, that an alternative of a group-less pattern occurs in.
ProgramGroupless == {"committed", "bsit", "it", "with", "business"}
DepartmentGroupless ==
  {"committed", "bsit", "it", "with", "engaged", "business", "management", "ge"}
PositionGroupless == {"guard"}

\* _extract_program: program_patterns[0] and [3] capture; [1] and [2] have no
\* keyword in this vocabulary; [4] has no group.
_extract_program(C) ==
  LET Program(captured) ==
        IF captured # <<>> THEN Value(Some(TitleSeq(captured)))
        ELSE IF \E i \in 1..Len(C) : C[i].lower \in ProgramGroupless THEN Raised
        ELSE Value(None)
  IN  Program(FirstNonEmpty(<<FirstCapture("program", "words", C, 1, 2, 0),
                              FirstCapture("BS", "words", C, 1, 2, 0)>>))

\* section_patterns[5], r'([0-9]{1,2}[A-Z])'; no token has a letter before a
\* digit for section_patterns[4].
DigitLetter(C) ==
  LET at == {i \in 1..Len(C) : C[i].raw = "3A"}
  IN  IF at = {} THEN <<>> ELSE <<C[Min(at)].raw>>

\* _extract_section: the 'section' label, then a bare code; at most ten characters.
_extract_section(C) ==
  LET Section(captured) == IF captured # <<>> THEN Some(UpperSeq(captured)) ELSE None
  IN  Section(FirstNonEmpty(<<FirstCapture("section", "section", C, 1, 0, 10), DigitLetter(C)>>))

\* The words, in lower case, that have 'ict', 'ge', 'bm' or 'business' in them.
HasICT == {}
HasGE == {"engaged", "management", "ge"}
HasBM == {"business"}

\* _extract_department: the 'department' label with the mapping to the
\* standard names; the patterns from the fourth on have no group.
_extract_department(C) ==
  LET Standard(department, lowered) ==
        IF \E i \in 1..Len(lowered) : lowered[i] \in HasICT
          THEN <<"Information", "Communications", "Technology", "(ICT)">>
        ELSE IF \E i \in 1..Len(lowered) : lowered[i] \in HasGE
          THEN <<"General", "Education", "(GE)">>
        ELSE IF \E i \in 1..Len(lowered) : lowered[i] \in HasBM
          THEN <<"Business", "Management", "(BM)">>
        ELSE TitleSeq(department)
      Department(department) ==
        IF department # <<>> THEN Value(Some(Standard(department, LowerSeq(department))))
        ELSE IF \E i \in 1..Len(C) : C[i].lower \in DepartmentGroupless THEN Raised
        ELSE Value(None)
  IN  Department(FirstCapture("department", "words", C, 1, 2, 0))

\* _extract_position: no token has a keyword of the two patterns with a group.
_extract_position(C) ==
  IF \E i \in 1..Len(C) : C[i].lower \in PositionGroupless THEN Raised ELSE Value(None)

\* The letter A to D a token starts with, in upper case; "" for any other start.
InitialAD(t) ==
  CASE t.lower \in {"a", "about"} -> "A"
    [] t.lower \in {"ba", "bsba", "bsit", "business"} -> "B"
    [] t.lower \in {"category", "caught", "cheating", "committed", "complaint", "concerning",
                    "course", "cruz"} -> "C"
    [] t.lower \in {"d", "da", "date", "date:", "de", "del", "dela", "department",
                    "description", "description:", "di", "document", "doe"} -> "D"
    [] OTHER -> ""

\* _extract_category: 'category', then the letter the next token starts with.
_extract_category(C) ==
  LET at == {i \in 1..(Len(C) - 1) : HasKeyword("category", C[i]) /\ InitialAD(C[i + 1]) # ""}
  IN  IF at = {} THEN None ELSE Some(<<InitialAD(C[Min(at) + 1])>>)

\* _extract_specific_offense: of the names of OFFENSE_CATEGORY_MAP only
\* 'cheating' is in this vocabulary; of the alternatives of
\* specific_offense_patterns 'cheating', which the names have found before,
\* and the Tagalog 'pandadaya'. match.group(0), title-cased.
_extract_specific_offense(C) ==
  LET named == {i \in 1..Len(C) : C[i].lower = "pandadaya"}
  IN  IF \E i \in 1..Len(C) : C[i].lower = "cheating" THEN Some(<<"Cheating">>)
      ELSE IF named # {} THEN Some(<<C[Min(named)].title>>)
      ELSE None

\* One of description_patterns, r'(?:...)\s*:?\s*(.+?)(?:\n|$)': the cleaned
\* text has no line break, so the capture is the rest of the text; it counts
\* when longer than ten characters.
RestAfter(pattern, C) ==
  LET hits == {i \in 1..Len(C) : HasKeyword(pattern, C[i])}
      Rest(i) == IF KeywordRest(C[i].raw) = ":" /\ i = Len(C) THEN <<":">>
                 ELSE Spell(SubSeq(C, i + 1, Len(C)))
  IN  IF hits = {} THEN <<>> ELSE Rest(Min(hits))

_extract_description(C) ==
  LET rests == <<RestAfter("description", C), RestAfter("report", C), RestAfter("complaint", C)>>
      long == {k \in 1..Len(rests) : StrLen(rests[k]) > 10}
  IN  IF long = {} THEN None ELSE Some(rests[Min(long)])

\* _map_offense_to_category: OFFENSE_CATEGORY_MAP.get(offense.lower())
_map_offense_to_category(offense) ==
  IF LowerSeq(offense) = <<"cheating">> THEN Some(<<"A">>) ELSE None

\* extract_offense_info(text)
extract_offense_info(txt) ==
  LET Info(category, specific_offense, description) ==
        [category |-> IF ~Truthy(category) /\ Truthy(specific_offense)
                        THEN _map_offense_to_category(specific_offense.value)
                        ELSE category,
         specific_offense |-> specific_offense,
         description |-> description]
      Cleaned(C) == Info(_extract_category(C), _extract_specific_offense(C), _extract_description(C))
  IN  Cleaned(Scan(_clean_text(txt)))

\* total_fields of _calculate_confidence
total_fields == 6

\* dict.get(key)
Get(info, key) == IF key \in DOMAIN info THEN info[key] ELSE None

\* How many of the given values count as found.
RECURSIVE Found(_)
Found(values) ==
  IF values = <<>> THEN 0
  ELSE (IF Truthy(Head(values)) THEN 1 ELSE 0) + Found(Tail(values))

\* round(confidence / total, 2), in hundredths. No count out of six or seven
\* is half a hundredth away from a hundredth, so half-to-even never shows.
Round2(confidence, total) == (200 * confidence + total) \div (2 * total)

\* _calculate_confidence with the description counted as a seventh field.
CalculateConfidenceCountsDescription(student_info, offense_info) ==
  LET confidence == Found(<<Get(student_info, "first_name"), Get(student_info, "last_name"),
                            Get(student_info, "program"), Get(student_info, "section"),
                            Get(offense_info, "category"), Get(offense_info, "specific_offense"),
                            Get(offense_info, "description")>>)
  IN  [num |-> Round2(confidence, total_fields), den |-> 100]

\* The count with the department and the position in the place of the program
\* and the section.
CountingDepartment(student_info, offense_info) ==
  LET confidence == Found(<<Get(student_info, "first_name"), Get(student_info, "last_name"),
                            Get(student_info, "department"), Get(student_info, "position"),
                            Get(offense_info, "category"), Get(offense_info, "specific_offense")>>)
  IN  [num |-> Round2(confidence, total_fields), den |-> 100]

\* _calculate_confidence(student_info, offense_info), as a fraction.
_calculate_confidence(student_info, offense_info) ==
  LET confidence == Found(<<Get(student_info, "first_name"), Get(student_info, "last_name"),
                            Get(student_info, "program"), Get(student_info, "section"),
                            Get(offense_info, "category"), Get(offense_info, "specific_offense")>>)
  IN  [num |-> Round2(confidence, total_fields), den |-> 100]

\* extract_student_info, extract_faculty_info, extract_staff_info: the record,
\* or the IndexError of the cascade.
extract_student_info(txt) ==
  LET Info(name_info, program, section) ==
        IF program.raised THEN Raised
        ELSE Value([last_name |-> name_info.last_name, first_name |-> name_info.first_name,
                    program |-> program.value, section |-> section])
      Cleaned(C) == Info(_extract_name(C, "student"), _extract_program(C), _extract_section(C))
  IN  Cleaned(Scan(_clean_text(txt)))

extract_faculty_info(txt) ==
  LET Info(name_info, department) ==
        IF department.raised THEN Raised
        ELSE Value([last_name |-> name_info.last_name, first_name |-> name_info.first_name,
                    department |-> department.value])
      Cleaned(C) == Info(_extract_name(C, "faculty"), _extract_department(C))
  IN  Cleaned(Scan(_clean_text(txt)))

extract_staff_info(txt) ==
  LET Info(name_info, position) ==
        IF position.raised THEN Raised
        ELSE Value([last_name |-> name_info.last_name, first_name |-> name_info.first_name,
                    position |-> position.value])
      Cleaned(C) == Info(_extract_name(C, "staff"), _extract_position(C))
  IN  Cleaned(Scan(_clean_text(txt)))

\* {**entity_info, **offense_info, ...}
Merge(f, g) == [k \in DOMAIN f \cup DOMAIN g |-> IF k \in DOMAIN g THEN g[k] ELSE f[k]]

\* The result of extract_all_info from its two parts: the merged record with
\* its confidence and timestamp, or the IndexError of the entity extractor.
AllInfo(entity_info, offense_info, now) ==
  IF entity_info.raised THEN [raised |-> "IndexError"]
  ELSE [raised |-> "",
        info |-> Merge(entity_info.value, offense_info),
        extraction_confidence |-> _calculate_confidence(entity_info.value, offense_info),
        extracted_at |-> now]

\* OCRService.extract_all_info(text, entity_type), called when the clock shows now.
OCRService_extract_all_info(txt, entity, now) ==
  AllInfo(IF entity = "faculty" THEN extract_faculty_info(txt)
          ELSE IF entity = "staff" THEN extract_staff_info(txt)
          ELSE extract_student_info(txt),
          extract_offense_info(txt), now)

-----------------------------------------------------------------------------
(* NarrativeOCRService of watch/app/services/narrative_ocr_service.py, and    *)
(* the /ocr/extract route that calls it                                       *)

\* [A-Z][a-z]+(?:\s+[A-Z][a-z]+){1,4} under re.IGNORECASE with nothing asked
\* behind it, greedy: up to five words from token k on, n taken so far; the
\* last may be the letters another token starts with.
RECURSIVE FreeRun(_, _, _)
FreeRun(F, k, n) ==
  IF n = 5 \/ k > Len(F) THEN <<>>
  ELSE IF F[k].word THEN <<F[k].raw>> \o FreeRun(F, k + 1, n + 1)
  ELSE IF LettersPrefix(F[k]) \notin OneLetter \cup {""} THEN <<LettersPrefix(F[k])>>
  ELSE <<>>

\* What has to follow the name: the start of token j of NoBreaks(S).
\* 'was caught' is written with one blank, which a line break is not.
FollowedBy(pattern, S, j) ==
  LET F == NoBreaks(S)
      at == Positions(S)
  IN  /\ j <= Len(F)
      /\ CASE pattern = "student" -> F[j].lower \in {",", "from", "is", "was"}
           [] pattern = "verb" ->
                \/ F[j].lower \in {"committed", "violated"}
                \/ /\ F[j].lower = "was"
                   /\ j + 1 <= Len(F)
                   /\ F[j + 1].lower = "caught"
                   /\ at[j + 1] = at[j] + 1
           [] pattern = "start" -> F[j].lower \in {"from", "instructor", "offender"}

\* The lengths of the names of two to five words from token s on that are
\* followed as the pattern asks.
RunLengths(pattern, S, s) ==
  LET F == NoBreaks(S)
  IN  {k \in 2..5 : /\ \A j \in s..(s + k - 1) : j <= Len(F) /\ F[j].word
                    /\ FollowedBy(pattern, S, s + k)}

NoMatchAt == [found |-> FALSE, capture |-> <<>>, next |-> 0]
MatchAt(capture, next) == [found |-> TRUE, capture |-> capture, next |-> next]

\* A name of two words or more from token s on, searching on from behind it.
FreeMatch(F, s) ==
  LET Run(run) == IF Len(run) >= 2 THEN MatchAt(run, s + Len(run)) ELSE NoMatchAt
  IN  Run(FreeRun(F, s, 0))

\* The leftmost match of a name pattern at or behind token pos. The patterns
\* that ask for a blank behind 'name', and the one for 'si', 'kay' and 'ni',
\* match in no text of this vocabulary.
NextMatch(pattern, S, pos) ==
  LET F == NoBreaks(S)
      from(hits, start(_)) ==
        LET ok == {i \in hits : i >= pos /\ FreeMatch(F, start(i)).found}
        IN  IF ok = {} THEN NoMatchAt ELSE FreeMatch(F, start(Min(ok)))
      ended(starts) ==
        LET ok == {s \in starts : s >= pos /\ RunLengths(pattern, S, s) # {}}
            Ended(s, k) ==
              MatchAt(Spell(SubSeq(F, s, s + k - 1)),
                      s + k + (IF pattern = "verb" /\ F[s + k].lower = "was" THEN 2 ELSE 1))
        IN  IF ok = {} THEN NoMatchAt ELSE Ended(Min(ok), Max(RunLengths(pattern, S, Min(ok))))
      afterThe(i) == IF /\ i + 2 <= Len(F)
                        /\ F[i + 1].lower = "the"
                        /\ F[i + 2].lower = "student"
                        /\ FreeMatch(F, i + 3).found
                       THEN i + 3 ELSE i + 1
      afterStudent(i) == IF /\ i + 1 <= Len(F)
                            /\ F[i + 1].lower = "student"
                            /\ FreeMatch(F, i + 2).found
                           THEN i + 2 ELSE i + 1
      next(i) == i + 1
  IN  CASE pattern = "name" ->
             from({i \in 1..Len(F) : F[i].lower \in {"lastname:", "firstname:", "lastname",
                                                     "firstname"}}, next)
        [] pattern = "student" -> ended({i + 1 : i \in {h \in 1..Len(F) : F[h].lower = "student"}})
        [] pattern = "caught" -> from({i \in 1..Len(F) : F[i].lower = "caught"}, afterThe)
        [] pattern = "verb" -> ended(1..Len(F))
        [] pattern = "start" -> ended(IF S # <<>> /\ S[1].raw # NL THEN {1} ELSE {})
        [] pattern = "regarding" ->
             from({i \in 1..Len(F) : F[i].lower \in {"regarding", "concerning", "about"}},
                  afterStudent)

\* The loop over re.finditer(pattern, text): the first match that passes the
\* checks, split.
RECURSIVE FirstName(_, _, _)
FirstName(pattern, S, pos) ==
  LET Split(m, name) ==
        IF name.found
          THEN [found |-> TRUE, first_name |-> name.first_name,
                last_name |-> name.last_name, full_name |-> m.capture]
          ELSE FirstName(pattern, S, m.next)
      Checked(m) == IF ~m.found THEN [found |-> FALSE] ELSE Split(m, NarrativeNameOf(m.capture))
  IN  Checked(NextMatch(pattern, S, pos))

NamePatterns == <<"name", "student", "caught", "verb", "start", "regarding">>

\* The loop over the patterns from the k-th on: the name of the first pattern
\* that has a match passing the checks.
RECURSIVE NameFromPattern(_, _)
NameFromPattern(S, k) ==
  LET First(name) ==
        IF name.found
          THEN [first_name |-> name.first_name, last_name |-> name.last_name,
                full_name |-> name.full_name]
          ELSE NameFromPattern(S, k + 1)
  IN  IF k > Len(NamePatterns) THEN [first_name |-> <<>>, last_name |-> <<>>, full_name |-> <<>>]
      ELSE First(FirstName(NamePatterns[k], S, 1))

\* extract_student_name_from_narrative(text)
extract_student_name_from_narrative(txt) == NameFromPattern(Scan(txt), 1)

\* What is left of a word when [:is]? has taken its first letter; "" for a
\* token that does not start with i or s.
AfterInitialIS(t) ==
  CASE t \in {"is", "Is"} -> "s"
    [] t = "IS" -> "S"
    [] t \in {"it", "It"} -> "t"
    [] t = "IT" -> "T"
    [] t \in {"instructor", "Instructor"} -> "nstructor"
    [] t = "INSTRUCTOR" -> "NSTRUCTOR"
    [] t \in {"student", "Student"} -> "tudent"
    [] t = "STUDENT" -> "TUDENT"
    [] t \in {"staff", "Staff"} -> "taff"
    [] t = "STAFF" -> "TAFF"
    [] t \in {"san", "San"} -> "an"
    [] t = "SAN" -> "AN"
    [] t \in {"santa", "Santa"} -> "anta"
    [] t = "SANTA" -> "ANTA"
    [] t \in {"section", "Section"} -> "ection"
    [] t = "SECTION" -> "ECTION"
    [] t \in {"smoking", "Smoking"} -> "moking"
    [] t = "SMOKING" -> "MOKING"
    [] OTHER -> ""

\* re.sub(r'\s+(program|course|student|enrolled).*$', '', program): the first
\* of these words that has no line break behind it is cut off with what
\* follows it and the blanks and line breaks before it.
RECURSIVE DropTrailingBreaks(_)
DropTrailingBreaks(words) ==
  IF words # <<>> /\ words[Len(words)] = NL
    THEN DropTrailingBreaks(SubSeq(words, 1, Len(words) - 1))
    ELSE words

RemoveTrailingWords(program) ==
  LET cut == {k \in 2..Len(program) :
                /\ program[k] \in AlphaWords
                /\ Lower(program[k]) \in {"program", "course", "student"}
                /\ \A m \in (k + 1)..Len(program) : program[m] # NL}
  IN  IF cut = {} THEN program ELSE DropTrailingBreaks(SubSeq(program, 1, Min(cut) - 1))

\* patterns[2], r"(?:program|course|kurso|programa)\s*[:is]?\s*([A-Za-z\s&()]+
\* (?:Technology|Science|Arts|Education|Business|Engineering))": the keyword,
\* a colon or the first letter i or s of the next word, then letters, blanks
\* and line breaks up to the last 'Business' they reach.
ProgramNamed(S) ==
  LET after(i) == {k \in (i + 1)..Len(S) : S[k].raw # NL}
      begin(i) == IF S[i].lower # "program:" /\ S[Min(after(i))].raw = ":"
                    THEN IF after(Min(after(i))) = {} THEN 0 ELSE Min(after(Min(after(i))))
                    ELSE Min(after(i))
      taken(i) == S[i].lower # "program:" /\ S[Min(after(i))].word
                    /\ AfterInitialIS(S[Min(after(i))].raw) # ""
      ends(i) == IF after(i) = {} \/ begin(i) = 0 THEN {}
                 ELSE {j \in begin(i)..Len(S) :
                         /\ S[j].lower = "business"
                         /\ \A k \in begin(i)..(j - 1) : S[k].raw = NL \/ IsLetters(S[k])}
      at == {i \in 1..Len(S) : S[i].lower \in {"program", "course", "program:"} /\ ends(i) # {}}
      capture(i, b, j) ==
        IF taken(i) THEN <<AfterInitialIS(S[b].raw)>> \o Spell(SubSeq(S, b + 1, j))
        ELSE Spell(SubSeq(S, b, j))
  IN  IF at = {} THEN <<>>
      ELSE RemoveTrailingWords(capture(Min(at), begin(Min(at)), Max(ends(Min(at)))))

\* extract_program_from_narrative: patterns[2]; then
\* r"(BS[A-Z]{2,4}|BA[A-Z]{2,4})\s+(?:program|course)?", an acronym with a
\* blank or a line break behind it. The other patterns need words this
\* vocabulary does not have.
extract_program_from_narrative(txt) ==
  LET Program(S, named) ==
        LET at == {i \in 1..(Len(S) - 1) : S[i].lower \in {"bsit", "bsba"}}
        IN  IF named # <<>> THEN named
            ELSE IF at = {} THEN <<>> ELSE <<S[Min(at)].raw>>
  IN  Program(Scan(txt), ProgramNamed(Scan(txt)))

\* [A-Z]?\d{1,2}[A-Z]? at the start of a token, "" if it does not match there.
SectionCode(t) ==
  CASE t \in {"3A", "7", "10", "20"} -> t
    [] t = "7," -> "7"
    [] t = "10/7/2025" -> "10"
    [] t \in {"2025", "2025-10-07", "2025-10-10", "2025-10-25"} -> "20"
    [] OTHER -> ""

\* extract_section_from_narrative: 'section' and a code; 'section:' and a
\* digit with a letter; a digit with a letter on its own.
extract_section_from_narrative(txt) ==
  LET Section(F) ==
        LET spaced == {i \in 1..(Len(F) - 1) : /\ F[i].lower = "section"
                                               /\ SectionCode(F[i + 1].raw) # ""}
            labelled == {i \in 1..(Len(F) - 1) : /\ F[i].lower \in {"section", "section:"}
                                                 /\ F[i + 1].raw = "3A"}
            alone == {i \in 1..Len(F) : F[i].raw = "3A"}
        IN  IF spaced # {} THEN <<SectionCode(F[Min(spaced) + 1].raw)>>
            ELSE IF labelled # {} THEN <<"3A">>
            ELSE IF alone # {} THEN <<"3A">>
            ELSE <<>>
  IN  Section(NoBreaks(Scan(txt)))

\* \d{1,2} at the end of a token, as datetime.strptime reads it with %d and
\* strftime writes it with %Y-%m-%d in October 2025; "" if the token does
\* not end with a digit.
DayAtEnd(t) ==
  CASE t \in {"7", "2025-10-07"} -> "2025-10-07"
    [] t \in {"10", "2025-10-10"} -> "2025-10-10"
    [] t = "20" -> "2025-10-20"
    [] t \in {"2025", "10/7/2025", "2025-10-25"} -> "2025-10-25"
    [] OTHER -> ""

\* \d{1,2},? as a whole token, read and written the same way.
DayToken(t) ==
  CASE t \in {"7", "7,"} -> "2025-10-07"
    [] t = "10" -> "2025-10-10"
    [] t = "20" -> "2025-10-20"
    [] OTHER -> ""

\* extract_date_from_narrative: month day year; day month year; m/d/yyyy;
\* yyyy-mm-dd; each parsed and written as yyyy-mm-dd; then, last, a Filipino
\* month, day and year, which no format parses and which is returned as it
\* was captured. October and Oktubre are the months of this vocabulary.
extract_date_from_narrative(txt) ==
  LET Date(S, F, at) ==
        LET monthFirst == {i \in 1..(Len(F) - 2) : /\ F[i].lower = "october"
                                                   /\ DayToken(F[i + 1].raw) # ""
                                                   /\ YearOf(F[i + 2].raw) # ""}
            dayFirst == {i \in 1..(Len(F) - 2) : /\ DayAtEnd(F[i].raw) # ""
                                                 /\ F[i + 1].lower = "october"
                                                 /\ YearOf(F[i + 2].raw) # ""}
            slash == {i \in 1..Len(F) : IsSlashDate(F[i].raw)}
            iso == {i \in 1..Len(F) : IsIsoDate(F[i].raw)}
            filipino == {i \in 1..(Len(F) - 2) : /\ F[i].lower = "oktubre"
                                                 /\ DayToken(F[i + 1].raw) # ""
                                                 /\ YearOf(F[i + 2].raw) # ""}
        IN  IF monthFirst # {} THEN <<DayToken(F[Min(monthFirst) + 1].raw)>>
            ELSE IF dayFirst # {} THEN <<DayAtEnd(F[Min(dayFirst)].raw)>>
            ELSE IF slash # {} THEN <<"2025-10-07">>
            ELSE IF iso # {} THEN <<F[Min(iso)].raw>>
            ELSE IF filipino # {}
              THEN Spell(SubSeq(S, at[Min(filipino)], at[Min(filipino) + 2] - 1))
                     \o <<YearOf(F[Min(filipino) + 2].raw)>>
            ELSE <<>>
  IN  Date(Scan(txt), NoBreaks(Scan(txt)), Positions(Scan(txt)))

\* The letter a, b or c a token starts with, as written; "" for any other start.
InitialABC(t) ==
  LET As(letter) ==
        IF letter \notin {"A", "B", "C"} THEN ""
        ELSE IF t.raw = "A" \/ (t.word /\ t.raw # t.lower) THEN letter
        ELSE IF ~t.word THEN ""
        ELSE IF letter = "A" THEN "a"
        ELSE IF letter = "B" THEN "b"
        ELSE "c"
  IN  As(InitialAD(t))

\* extract_offense_from_narrative: the first keyword of offense_mapping that
\* is in the text, else 'Category' and a letter; 'offense', 'violation' and
\* 'incident' are not in this vocabulary.
extract_offense_from_narrative(txt) ==
  LET OffenseOf(F) ==
        LET at == {i \in 1..(Len(F) - 1) : F[i].lower = "category" /\ InitialABC(F[i + 1]) # ""}
        IN  IF \E i \in 1..Len(F) : F[i].lower = "smoking"
              THEN [category |-> <<"Category", "A">>,
                    specific_offense |-> <<"Smoking", "Inside", "Campus">>]
            ELSE IF \E i \in 1..Len(F) : F[i].lower = "cheating"
              THEN [category |-> <<"Category", "A">>,
                    specific_offense |-> <<"Cheating/Academic", "Dishonesty">>]
            ELSE IF at # {}
              THEN [category |-> <<"Category", InitialABC(F[Min(at) + 1])>>, specific_offense |-> <<>>]
            ELSE [category |-> <<>>, specific_offense |-> <<>>]
  IN  OffenseOf(NoBreaks(Scan(txt)))

\* extract_all_from_narrative(text, entity_type)
extract_all_from_narrative(txt, entity) ==
  LET All(name_data, offense_data) ==
        [first_name |-> name_data.first_name,
         last_name |-> name_data.last_name,
         full_name |-> name_data.full_name,
         program_or_dept |-> extract_program_from_narrative(txt),
         section |-> extract_section_from_narrative(txt),
         date |-> extract_date_from_narrative(txt),
         offense_category |-> offense_data.category,
         offense_type |-> offense_data.specific_offense,
         description |-> txt]
  IN  All(extract_student_name_from_narrative(txt), extract_offense_from_narrative(txt))

\* validate_extraction(result): the warnings. The result has no entity_type,
\* so a missing section is never warned about.
validate_extraction(extracted) ==
  {w \in {"name", "program", "date", "offense"} :
     \/ w = "name" /\ (extracted.first_name = <<>> \/ extracted.last_name = <<>>)
     \/ w = "program" /\ extracted.program_or_dept = <<>>
     \/ w = "date" /\ extracted.date = <<>>
     \/ w = "offense" /\ extracted.offense_type = <<>>}

-----------------------------------------------------------------------------
(* The offense classifier of ocr_utils.py *)

\* An entry of OFFENSE_LIST: code -> {label, category, severity, regex?, keywords}.
\* has_regex is `"regex" in info`; the pattern is the set of words (lower case)
\* it matches, ignoring case.  The dict keeps the order of the JSON document, so
\* the taxonomy is the sequence of its entries.
Entry(code, category, severity, has_regex, regex, keywords) ==
  [code |-> code, label |-> code, category |-> category, severity |-> severity,
   has_regex |-> has_regex, regex |-> regex, keywords |-> keywords]


\* The lower case of a token of text.upper().
LowerOfUpper(u) ==
  IF u \in UpperWords THEN (CHOOSE w \in Words : w[3] = u)[1]
  ELSE (CHOOSE o \in Others : o[3] = u)[2]

\* re.search(pattern, text_upper, re.IGNORECASE): the place of the leftmost match, 0 for None.
RegexSearch(pattern, text_upper) ==
  LET hits == {i \in 1..Len(text_upper) : LowerOfUpper(text_upper[i]) \in pattern}
  IN  IF hits = {} THEN 0 ELSE CHOOSE i \in hits : \A j \in hits : i <= j

\* `kw in text_upper`: over this vocabulary a keyword is a substring of the text
\* exactly when it is one of its words.
KeywordIn(kw, text_upper) == \E i \in 1..Len(text_upper) : text_upper[i] = kw

\* The first keyword of the list that occurs in the text, 0 for none.
FirstKeyword(keywords, text_upper) ==
  LET hits == {k \in 1..Len(keywords) : KeywordIn(keywords[k], text_upper)}
  IN  IF hits = {} THEN 0 ELSE CHOOSE k \in hits : \A j \in hits : k <= j

NoMatch == [matched |-> FALSE, match_method |-> "None", matched_text |-> "None"]

\* One turn of the loop of detect_offense_from_text over OFFENSE_LIST.items().
MatchEntry(info, text_upper) ==
  LET at == IF info.has_regex THEN RegexSearch(info.regex, text_upper) ELSE 0
      k == FirstKeyword(info.keywords, text_upper)
  IN  IF at # 0
        THEN [matched |-> TRUE, match_method |-> "regex", matched_text |-> text_upper[at]]
      ELSE IF k # 0
        THEN [matched |-> TRUE, match_method |-> "keyword", matched_text |-> info.keywords[k]]
      ELSE NoMatch

Offense(info, m) ==
  [code |-> info.code, label |-> info.label, category |-> info.category,
   severity |-> info.severity, match_method |-> m.match_method,
   matched_text |-> m.matched_text]

\* detected_offenses after the loop of detect_offense_from_text over the first n entries.
RECURSIVE Detected(_, _, _)
Detected(list, n, text_upper) ==
  IF n = 0 THEN <<>>
  ELSE LET m == MatchEntry(list[n], text_upper)
           before == Detected(list, n - 1, text_upper)
       IN  IF m.matched THEN Append(before, Offense(list[n], m)) ELSE before

\* The turn with the keywords tried before the regex.
MatchEntryAllKeywordsFirst(info, text_upper) ==
  LET at == IF info.has_regex THEN RegexSearch(info.regex, text_upper) ELSE 0
      k == FirstKeyword(info.keywords, text_upper)
  IN  IF k # 0
        THEN [matched |-> TRUE, match_method |-> "keyword", matched_text |-> info.keywords[k]]
      ELSE IF at # 0
        THEN [matched |-> TRUE, match_method |-> "regex", matched_text |-> text_upper[at]]
      ELSE NoMatch

\* One turn of the loop of detect_all_offenses_from_text.
MatchEntryAll(info, text_upper) ==
  LET at == IF info.has_regex THEN RegexSearch(info.regex, text_upper) ELSE 0
      k == FirstKeyword(info.keywords, text_upper)
  IN  IF at # 0
        THEN [matched |-> TRUE, match_method |-> "regex", matched_text |-> text_upper[at]]
      ELSE IF k # 0
        THEN [matched |-> TRUE, match_method |-> "keyword", matched_text |-> info.keywords[k]]
      ELSE NoMatch

\* detected_offenses after the loop of detect_all_offenses_from_text.
RECURSIVE DetectedAll(_, _, _)
DetectedAll(list, n, text_upper) ==
  IF n = 0 THEN <<>>
  ELSE LET m == MatchEntryAll(list[n], text_upper)
           before == DetectedAll(list, n - 1, text_upper)
       IN  IF m.matched THEN Append(before, Offense(list[n], m)) ELSE before

\* A sort by the same key that is not stable: equal severities come out reversed.
RECURSIVE SortBySeverityFlipsTies(_)
SortBySeverityFlipsTies(offenses) ==
  IF offenses = <<>> THEN <<>>
  ELSE LET rest == SortBySeverityFlipsTies(Tail(offenses))
           x == Head(offenses)
           ahead == SelectSeq(rest, LAMBDA y : y.severity >= x.severity)
           behind == SelectSeq(rest, LAMBDA y : y.severity < x.severity)
       IN  ahead \o <<x>> \o behind

\* A sort that puts the lowest severity first (reverse=True forgotten).
RECURSIVE SortBySeverityAscending(_)
SortBySeverityAscending(offenses) ==
  IF offenses = <<>> THEN <<>>
  ELSE LET rest == SortBySeverityAscending(Tail(offenses))
           x == Head(offenses)
           ahead == SelectSeq(rest, LAMBDA y : y.severity < x.severity)
           behind == SelectSeq(rest, LAMBDA y : y.severity >= x.severity)
       IN  ahead \o <<x>> \o behind

\* list.sort(key=lambda x: x["severity"], reverse=True): a stable sort, and
\* reverse=True keeps the original order of elements with equal keys.
RECURSIVE SortBySeverity(_)
SortBySeverity(offenses) ==
  IF offenses = <<>> THEN <<>>
  ELSE LET rest == SortBySeverity(Tail(offenses))
           x == Head(offenses)
           ahead == SelectSeq(rest, LAMBDA y : y.severity > x.severity)
           behind == SelectSeq(rest, LAMBDA y : y.severity <= x.severity)
       IN  ahead \o <<x>> \o behind

\* The value detect_offense_from_text returns when nothing matched.
UnknownOffense ==
  [code |-> "UNKNOWN", label |-> "Unclassified", category |-> "N/A", severity |-> 0]

\* The value detect_all_offenses_from_text returns when nothing matched.
UnknownOffenseAll ==
  [code |-> "UNKNOWN", label |-> "Unclassified", category |-> "N/A", severity |-> 0,
   match_method |-> "none", matched_text |-> "N/A"]

\* detect_offense_from_text falling back to the first entry of the taxonomy.
DetectOffenseDefaultsToFirstEntry(list, description) ==
  LET detected_offenses == Detected(list, Len(list), UpperSeq(description))
  IN  IF detected_offenses # <<>>
        THEN SortBySeverity(detected_offenses)[1]
        ELSE IF list # <<>> THEN Offense(list[1], NoMatch) ELSE UnknownOffense

\* detect_offense_from_text(description) over the taxonomy `list`.
detect_offense_from_text(list, description) ==
  LET detected_offenses == Detected(list, Len(list), UpperSeq(description))
  IN  IF detected_offenses # <<>>
        THEN SortBySeverity(detected_offenses)[1]
        ELSE UnknownOffense

\* detect_all_offenses_from_text(description) over the taxonomy `list`.
detect_all_offenses_from_text(list, description) ==
  LET detected_offenses == SortBySeverity(DetectedAll(list, Len(list), UpperSeq(description)))
  IN  IF detected_offenses # <<>> THEN detected_offenses ELSE <<UnknownOffenseAll>>

-----------------------------------------------------------------------------
(* Calls and their results *)

NoCall == [op |-> "none"]

\* What a call with these arguments, besides the text, returned.
ReturnedFor(op, args, out) == [op |-> op, args |-> args, out |-> out]

Returned(op, out) == ReturnedFor(op, <<>>, out)

\* The three names of the particle-splitting examples.
JuanMiguelDeLaCruz == <<"Juan", "Miguel", "De", "La", "Cruz">>
MariaDelRosario == <<"Maria", "Del", "Rosario">>
JohnDoe == <<"John", "Doe">>

\* The words the enumerated names are made of.
NameWords == {"Juan", "Cruz", "De", "La", "dela", "San"}

NamesUnderTest ==
  SeqsUpTo(NameWords, MaxNameLen) \cup {JuanMiguelDeLaCruz, MariaDelRosario, JohnDoe}

-----------------------------------------------------------------------------
(* SpecSplit: the name splitters applied to a captured name *)

InitSplit ==
  /\ taxonomy = <<>>
  /\ text \in NamesUnderTest
  /\ clock = 0
  /\ hash_order = <<>>
  /\ uploads = 0
  /\ activity_log = 0
  /\ result = NoCall
  /\ calls = <<>>

CallFieldsSplit ==
  /\ result' = Returned("fields_split", FieldsSplit(text))
  /\ UNCHANGED <<taxonomy, text, clock, hash_order, uploads, activity_log, calls>>

CallOffenderSplit ==
  /\ result' = Returned("offender_split", OffenderSplit(text))
  /\ UNCHANGED <<taxonomy, text, clock, hash_order, uploads, activity_log, calls>>

CallUploadSplit ==
  /\ result' = Returned("upload_split", UploadSplit(text))
  /\ UNCHANGED <<taxonomy, text, clock, hash_order, uploads, activity_log, calls>>

CallFromTextSplit ==
  /\ result' = Returned("from_text_split", FromTextSplit(text))
  /\ UNCHANGED <<taxonomy, text, clock, hash_order, uploads, activity_log, calls>>

CallNarrativeName ==
  /\ result' = Returned("narrative_name", NarrativeNameOf(text))
  /\ UNCHANGED <<taxonomy, text, clock, hash_order, uploads, activity_log, calls>>

NextSplit ==
  \/ CallFieldsSplit
  \/ CallOffenderSplit
  \/ CallUploadSplit
  \/ CallFromTextSplit
  \/ CallNarrativeName

SpecSplit == InitSplit /\ [][NextSplit]_vars

-----------------------------------------------------------------------------
(* SpecClassify: the classifier applied to a description under a taxonomy *)

Codes == <<"A1", "B2", "C3", "D4">>
Severities == {1, 2}
Categories == <<"A", "B">>

\* The keyword lists of the enumerated entries; "cheating" is a keyword written
\* in lower case in the document.
KeywordLists == {<<"SMOKING">>, <<"VAPE", "CHEATING">>, <<"cheating">>}

\* The pattern of the enumerated entries that have one.
VapePattern == {"vape"}

EntryShapes ==
  [severity : Severities, has_regex : BOOLEAN, keywords : KeywordLists]

EntryAt(i, shape) ==
  Entry(Codes[i], Categories[shape.severity], shape.severity, shape.has_regex,
        IF shape.has_regex THEN VapePattern ELSE {}, shape.keywords)

\* The documents of at most MaxEntries entries.
Taxonomies ==
  {[i \in 1..Len(shapes) |-> EntryAt(i, shapes[i])] : shapes \in SeqsUpTo(EntryShapes, MaxEntries)}

DescWords == {"smoking", "Cheating", "VAPE"}
Descriptions == SeqsUpTo(DescWords, MaxDescLen)

InitClassify ==
  /\ taxonomy \in Taxonomies
  /\ text \in Descriptions
  /\ clock = 0
  /\ hash_order = <<>>
  /\ uploads = 0
  /\ activity_log = 0
  /\ result = NoCall
  /\ calls = <<>>

CallDetectOffense ==
  /\ result' = Returned("detect_offense", detect_offense_from_text(taxonomy, text))
  /\ UNCHANGED <<taxonomy, text, clock, hash_order, uploads, activity_log, calls>>

CallDetectAll ==
  /\ result' = Returned("detect_all", detect_all_offenses_from_text(taxonomy, text))
  /\ UNCHANGED <<taxonomy, text, clock, hash_order, uploads, activity_log, calls>>

NextClassify ==
  \/ CallDetectOffense
  \/ CallDetectAll

SpecClassify == InitClassify /\ [][NextClassify]_vars

-----------------------------------------------------------------------------
(* The orchestrated extraction of enhanced_extraction.py and the routes *)

\* The lists a set can be converted to.
Orderings(S) ==
  {order \in [1..Cardinality(S) -> S] :
     \A i, j \in 1..Cardinality(S) : i # j => order[i] # order[j]}

\* The names the scanner finds in a text, as it is and stripped.
Candidates(txt) == UNION {OffenderSet(t) : t \in {txt, Strip(txt)}}

\* identify_offender_from_text(text): list(set(offenders)), then the filter.
\* A set of strings is listed in the order of their hashes, which the
\* process seeds at its start; order is the list that seed gives.
identify_offender_from_text(txt, order) ==
  LET Listed(offenders) == SelectSeq(order, LAMBDA name : name \in offenders)
  IN  Listed(OffenderSet(txt))

\* if offenders and (not fields.get("first_name") or not fields.get("last_name")):
\* the split of offenders[0] replaces both names. split is that split, and
\* NoSplit when there is no offender.
MergeOffender(fields, offenders, split) ==
  IF /\ offenders # <<>>
     /\ (fields.first_name = <<>> \/ fields.last_name = <<>>)
     /\ split.found
    THEN [fields EXCEPT !.last_name = split.last_name,
                        !.first_name = split.first_name]
  ELSE fields

\* fields.get("description", "") or text
DescriptionOr(fields, txt) == IF fields.description # <<>> THEN fields.description ELSE txt

\* extract_all_info(text) of enhanced_extraction.py
extract_all_info(list, txt, order) ==
  LET Result(fields, offenders) ==
        [fields |-> fields,
         offenders_identified |-> offenders,
         offense_detected |-> detect_offense_from_text(list, DescriptionOr(fields, txt)),
         all_offenses_detected |-> detect_all_offenses_from_text(list, DescriptionOr(fields, txt))]
      Merged(offenders) ==
        Result(MergeOffender(extract_fields_from_text(txt), offenders,
                             IF offenders = <<>> THEN NoSplit ELSE OffenderSplit(Flat(offenders[1]))),
               offenders)
  IN  Merged(identify_offender_from_text(txt, order))

\* What becomes of the uploaded file: there is none, save_upload refuses it,
\* the OCR engine fails on it, or it is read.
Files == {"none", "refused", "unreadable", "read"}

\* upload_ocr_form() of ocr/routes.py, for a file the OCR engine reads as txt.
upload_ocr_form(list, file, txt, order) ==
  LET Response(fields, offenders) ==
        [status |-> 200, success |-> TRUE, extracted_text |-> txt, fields |-> fields,
         offense_detected |-> detect_offense_from_text(list, DescriptionOr(fields, txt)),
         all_offenses_detected |-> detect_all_offenses_from_text(list, DescriptionOr(fields, txt)),
         offenders_identified |-> offenders]
      Merged(offenders) ==
        Response(MergeOffender(extract_fields_from_text(txt), offenders,
                               IF offenders = <<>> THEN NoSplit ELSE UploadSplit(Flat(offenders[1]))),
                 offenders)
  IN  CASE file = "none" -> [status |-> 400, success |-> FALSE, error |-> "No file uploaded"]
        [] file = "refused" -> [status |-> 500, success |-> FALSE, error |-> "OCR extraction failed"]
        [] file = "unreadable" -> [status |-> 500, success |-> FALSE,
                                   error_type |-> "tesseract_not_installed"]
        [] file = "read" -> Merged(identify_offender_from_text(txt, order))

\* extract_from_text() of ocr/routes.py, for the text of the request.
extract_from_text(list, txt, order) ==
  LET Response(extracted_text, fields, offenders) ==
        [status |-> 200, success |-> TRUE, extracted_text |-> extracted_text, fields |-> fields,
         offense_detected |-> detect_offense_from_text(list, DescriptionOr(fields, extracted_text)),
         all_offenses_detected |->
           detect_all_offenses_from_text(list, DescriptionOr(fields, extracted_text)),
         offenders_identified |-> offenders]
      Merged(extracted_text, offenders) ==
        Response(extracted_text,
                 MergeOffender(extract_fields_from_text(extracted_text), offenders,
                               IF offenders = <<>> THEN NoSplit ELSE FromTextSplit(Flat(offenders[1]))),
                 offenders)
      Stripped(extracted_text) ==
        IF extracted_text = <<>>
          THEN [status |-> 400, success |-> FALSE, error |-> "No text provided"]
          ELSE Merged(extracted_text, identify_offender_from_text(extracted_text, order))
  IN  Stripped(Strip(txt))

\* total_fields of extract_ocr_data
total_fields_route == 7

EntityTypes == {"student", "faculty", "staff"}

\* if entity_type not in ['student', 'faculty', 'staff']: entity_type = 'student'
ValidEntity(entity) == IF entity \in EntityTypes THEN entity ELSE "student"

\* extract_ocr_data() of cases/routes.py, for the text and the entity type of
\* the request: the confidence is the fraction of the seven fields found.
extract_ocr_data(txt, entity) ==
  LET Response(extracted_data, warnings) ==
        [status |-> 200, success |-> TRUE, data |-> extracted_data,
         extraction_confidence |->
           [num |-> Found(<<Some(extracted_data.first_name), Some(extracted_data.last_name),
                            Some(extracted_data.section), Some(extracted_data.date),
                            Some(extracted_data.program_or_dept), Some(extracted_data.offense_type),
                            Some(extracted_data.offense_category)>>),
            den |-> total_fields_route],
         validation |-> [is_valid |-> warnings = {}, errors |-> warnings]]
      Validated(extracted_data) == Response(extracted_data, validate_extraction(extracted_data))
      Stripped(ocr_text) ==
        IF ocr_text = <<>> THEN [status |-> 400, error |-> "No text provided"]
        ELSE Validated(extract_all_from_narrative(ocr_text, ValidEntity(entity)))
  IN  Stripped(Strip(txt))

-----------------------------------------------------------------------------
(* Spec: the extraction entry points called on one text *)

\* OFFENSE_LIST of the behaviours of Spec: two entries, the second with a pattern.
SampleTaxonomy ==
  <<Entry("A1", "A", 1, FALSE, {}, <<"SMOKING">>),
    Entry("B2", "B", 2, TRUE, VapePattern, <<"VAPE", "CHEATING">>)>>

\* A complaint form, complete and with the first name missing.
FormLastOnly == <<"LastName:", "Cruz", NL>>
FormComplete ==
  <<"LastName:", "Cruz", NL, "FirstName:", "Juan", NL, "Program:", "BSIT", NL,
    "Section:", "3A", NL, "Date:", "October", "7,", "2025", NL, "Description:">>
Forms == {<<>>, FormLastOnly, FormComplete}

Subjects ==
  {<<>>, <<"student", "Juan", "Cruz">>, <<"student", "Maria", "Del", "Rosario">>}

Endings ==
  {<<>>, <<"was", "caught", "cheating">>,
   <<"from", "BSIT", "3A", "was", "caught", "smoking", "on", "October", "7,", "2025">>,
   <<"program", "BSIT", "section", "3A", "category", "A", "cheating">>,
   <<"was", "caught", NL, "student", "Pedro", "Doe", "was", "caught", "vape">>}

\* Text no pattern was written for, and text of blanks only.
GarbageWords == {"it", "guard", ","}
Garbage == SeqsUpTo(GarbageWords, MaxTextLen) \cup {<<NL>>}

\* The template of end-to-end scenario A, its values in upper case.
ScenarioA ==
  <<"LastName:", "DE", "LA", "CRUZ", NL, "FirstName:", "JUAN", "MIGUEL", NL,
    "Program:", "BSIT", NL, "Section:", "3A">>

\* The narrative of end-to-end scenario B in the words of the vocabulary:
\* without "inside campus" and the full stop, which take no part in what the
\* patterns of name, program, section, date and offense match in it.
ScenarioB ==
  <<"The", "student", "Juan", "Miguel", "De", "La", "Cruz", "from", "BSIT", "3A",
    "was", "caught", "smoking", "on", "October", "7,", "2025">>

\* Texts without a Description field that name an offense in their first
\* line, and in a line with the word REPORT.
OffenseInFirstLine ==
  <<"student", "Juan", "Cruz", "was", "caught", "smoking", NL, "it", "was", "late">>
OffenseInHeaderLine == <<"report", "smoking", NL, "guard", NL, "it", "was", "late">>

\* A narrative that names the student with five words.
FiveWordName ==
  <<"student", "Juan", "Miguel", "Pedro", "John", "Doe", "was", "caught", "smoking">>

\* A Filipino month-name date with a numeric slash date behind it.
TwoNotations == <<"Oktubre", "20", "2025", "10/7/2025">>

\* A department given by its abbreviation, and one given by its name.
DepartmentGE == <<"department", "GE">>
DepartmentBusiness == <<"department", "Business", "Management">>

\* A department and an offense in one line.
DepartmentCheating == <<"department", "Business", "Management", "cheating">>

\* An offense under its Tagalog name.
TagalogOffense == <<"student", "Juan", "Cruz", "pandadaya">>

\* A template with nothing behind its first label.
LastNameLeftEmpty == <<"LastName:", NL, "FirstName:", "Juan">>

Scenarios ==
  {ScenarioA, ScenarioB, OffenseInFirstLine, OffenseInHeaderLine, FiveWordName, TwoNotations,
   DepartmentGE, DepartmentBusiness, DepartmentCheating, TagalogOffense, LastNameLeftEmpty}

Texts == {form \o subject \o ending : form \in Forms, subject \in Subjects, ending \in Endings}
           \cup Garbage \cup Scenarios

Init ==
  /\ taxonomy = SampleTaxonomy
  /\ text \in Texts
  /\ clock = 0
  /\ hash_order \in Orderings(Candidates(text))
  /\ uploads = 0
  /\ activity_log = 0
  /\ result = NoCall
  /\ calls = <<>>

\* The process starts again: string hashing is seeded anew.
Restart ==
  /\ hash_order' \in Orderings(Candidates(text))
  /\ UNCHANGED <<taxonomy, text, clock, uploads, activity_log, result, calls>>

\* Time passes.
Tick ==
  /\ clock < MaxClock
  /\ clock' = clock + 1
  /\ UNCHANGED <<taxonomy, text, hash_order, uploads, activity_log, result, calls>>

CallExtractAllInfo ==
  /\ result' = Returned("extract_all_info", extract_all_info(taxonomy, text, hash_order))
  /\ UNCHANGED <<taxonomy, text, clock, hash_order, uploads, activity_log, calls>>

\* POST /upload: save_upload writes the file before the OCR engine reads it.
CallUploadOcrForm ==
  \E file \in Files :
    /\ file \in {"unreadable", "read"} => uploads < MaxUploads
    /\ uploads' = IF file \in {"unreadable", "read"} THEN uploads + 1 ELSE uploads
    /\ result' = Returned("upload_ocr_form", upload_ocr_form(taxonomy, file, text, hash_order))
    /\ UNCHANGED <<taxonomy, text, clock, hash_order, activity_log, calls>>

\* POST /extract-from-text
CallExtractFromText ==
  /\ result' = Returned("extract_from_text", extract_from_text(taxonomy, text, hash_order))
  /\ UNCHANGED <<taxonomy, text, clock, hash_order, uploads, activity_log, calls>>

\* OCRService.extract_all_info(text, entity_type)
CallOCRService ==
  \E entity \in EntityTypes :
    /\ result' = ReturnedFor("OCRService.extract_all_info", <<entity>>,
                             OCRService_extract_all_info(text, entity, clock))
    /\ UNCHANGED <<taxonomy, text, clock, hash_order, uploads, activity_log, calls>>

\* POST /ocr/extract: with a current user the extraction is logged.
CallExtractOcrData ==
  \E entity \in EntityTypes \cup {"admin"}, user \in BOOLEAN :
    LET logged == user /\ Strip(text) # <<>>
    IN  /\ logged => activity_log < MaxLog
        /\ activity_log' = IF logged THEN activity_log + 1 ELSE activity_log
        /\ result' = ReturnedFor("extract_ocr_data", <<entity>>, extract_ocr_data(text, entity))
        /\ UNCHANGED <<taxonomy, text, clock, hash_order, uploads, calls>>

Next ==
  \/ Restart
  \/ Tick
  \/ CallExtractAllInfo
  \/ CallUploadOcrForm
  \/ CallExtractFromText
  \/ CallOCRService
  \/ CallExtractOcrData

Spec == Init /\ [][Next]_vars

-----------------------------------------------------------------------------
(* SpecClean: OCRService._clean_text on characters.  Here a string is the     *)
(* sequence of its characters, blanks and line breaks included, so that what  *)
(* the normalizer does to the blanks of a text is visible.                    *)

\* \s, \w and the punctuation of the class [^\w\s.,:;!?()-], as far as the
\* texts of SpecClean go.
Whitespace == {" ", "\n"}
WordChars == {"a", "n", "d"}
Punctuation == {","}

\* The characters the raw texts are written with: '@' and '&' are outside the
\* class.
RawChars == {"a", " ", "\n", ",", "@", "&"}

\* text.strip()
RECURSIVE StripChars(_)
StripChars(s) ==
  IF s = <<>> THEN <<>>
  ELSE IF Head(s) \in Whitespace THEN StripChars(Tail(s))
  ELSE IF s[Len(s)] \in Whitespace THEN StripChars(SubSeq(s, 1, Len(s) - 1))
  ELSE s

\* re.sub(r'\s+', ' ', s): every run of whitespace becomes one blank.
RECURSIVE CollapseWhitespace(_)
CollapseWhitespace(s) ==
  IF s = <<>> THEN <<>>
  ELSE IF Head(s) \notin Whitespace THEN <<Head(s)>> \o CollapseWhitespace(Tail(s))
  ELSE IF Len(s) > 1 /\ s[2] \in Whitespace THEN CollapseWhitespace(Tail(s))
  ELSE <<" ">> \o CollapseWhitespace(Tail(s))

\* re.sub(r'[^\w\s.,:;!?()-]', ' ', s)
ReplaceSpecial(s) ==
  [i \in 1..Len(s) |->
     IF s[i] \in WordChars \cup Whitespace \cup Punctuation THEN s[i] ELSE " "]

\* s.replace('&', 'and')
RECURSIVE ReplaceAmpersand(_)
ReplaceAmpersand(s) ==
  IF s = <<>> THEN <<>>
  ELSE (IF Head(s) = "&" THEN <<"a", "n", "d">> ELSE <<Head(s)>>)
         \o ReplaceAmpersand(Tail(s))

\* _clean_text(text), character by character
CleanChars(s) ==
  IF s = <<>> THEN <<>>
  ELSE ReplaceAmpersand(ReplaceSpecial(CollapseWhitespace(StripChars(s))))

RawTexts == SeqsUpTo(RawChars, MaxChars)

InitClean ==
  /\ taxonomy = <<>>
  /\ text \in RawTexts
  /\ clock = 0
  /\ hash_order = <<>>
  /\ uploads = 0
  /\ activity_log = 0
  /\ result = NoCall
  /\ calls = <<>>

CallCleanText ==
  /\ result' = Returned("_clean_text", CleanChars(text))
  /\ UNCHANGED <<taxonomy, text, clock, hash_order, uploads, activity_log, calls>>

NextClean == CallCleanText

SpecClean == InitClean /\ [][NextClean]_vars

-----------------------------------------------------------------------------
(* SpecLoad: the import of ocr_utils.py, which loads offense_list.json into   *)
(* OFFENSE_LIST, and the classifier calls of the process that imported it     *)

\* The keys the classifier reads of a matching entry with info[...].
RequiredKeys == {"label", "category", "severity"}

\* An entry of the document written without some of its keys.
Without(info, keys) == [k \in DOMAIN info \ keys |-> info[k]]

\* The entries of the enumerated documents: complete, or lacking one required key.
DocumentEntries ==
  {[i \in 1..Len(lacks) |->
      Without(EntryAt(i, [severity |-> i, has_regex |-> FALSE, keywords |-> <<"SMOKING">>]),
              lacks[i])] :
     lacks \in SeqsUpTo({{}, {"label"}, {"category"}, {"severity"}}, MaxEntries)}

\* offense_list.json as the process finds it: absent, not JSON, JSON that is
\* not an object (a list), or an object of entries.
Documents ==
  {[exists |-> FALSE, parses |-> FALSE, mapping |-> FALSE, entries |-> <<>>],
   [exists |-> TRUE, parses |-> FALSE, mapping |-> FALSE, entries |-> <<>>],
   [exists |-> TRUE, parses |-> TRUE, mapping |-> FALSE, entries |-> <<>>]}
    \cup {[exists |-> TRUE, parses |-> TRUE, mapping |-> TRUE, entries |-> entries] :
            entries \in DocumentEntries}

\* OFFENSE_LIST before the import, after an import that raised, and after one
\* that returned.
NotImported == [state |-> "not imported", mapping |-> FALSE, entries |-> <<>>]
ImportFailed == [state |-> "import failed", mapping |-> FALSE, entries |-> <<>>]
Imported(document) ==
  [state |-> "imported", mapping |-> document.mapping, entries |-> document.entries]

\* load_offense_list(): open() raises on a missing file, json.load() on text
\* that is not JSON; whatever json.load() returns is returned as it is.
load_offense_list(document) ==
  IF document.exists /\ document.parses THEN Imported(document) ELSE ImportFailed

\* A call that ended in an exception.
RaisedError(name) == [raised |-> name]

\* A matching entry whose label, category or severity is read and is not there.
KeyErrorIn(list, description) ==
  \E n \in 1..Len(list) :
    /\ MatchEntry(list[n], UpperSeq(description)).matched
    /\ ~(RequiredKeys \subseteq DOMAIN list[n])

\* detect_offense_from_text(description) in a process whose OFFENSE_LIST is
\* `loaded`: .items() of a list raises AttributeError, info["severity"] of an
\* entry without it raises KeyError.
DetectOffenseOver(loaded, description) ==
  IF ~loaded.mapping THEN RaisedError("AttributeError")
  ELSE IF KeyErrorIn(loaded.entries, description) THEN RaisedError("KeyError")
  ELSE detect_offense_from_text(loaded.entries, description)

\* detect_all_offenses_from_text(description) in that process.
DetectAllOver(loaded, description) ==
  IF ~loaded.mapping THEN RaisedError("AttributeError")
  ELSE IF KeyErrorIn(loaded.entries, description) THEN RaisedError("KeyError")
  ELSE detect_all_offenses_from_text(loaded.entries, description)

InitLoad ==
  /\ taxonomy = NotImported
  /\ text \in Descriptions
  /\ clock = 0
  /\ hash_order = <<>>
  /\ uploads = 0
  /\ activity_log = 0
  /\ result = NoCall
  /\ calls = <<>>

\* The process starts: `OFFENSE_LIST = load_offense_list()` runs at import.
ImportOcrUtils ==
  /\ taxonomy = NotImported
  /\ \E document \in Documents : taxonomy' = load_offense_list(document)
  /\ UNCHANGED <<text, clock, hash_order, uploads, activity_log, result, calls>>

CallDetectOffenseLoaded ==
  /\ taxonomy.state = "imported"
  /\ result' = Returned("detect_offense", DetectOffenseOver(taxonomy, text))
  /\ UNCHANGED <<taxonomy, text, clock, hash_order, uploads, activity_log, calls>>

CallDetectAllLoaded ==
  /\ taxonomy.state = "imported"
  /\ result' = Returned("detect_all", DetectAllOver(taxonomy, text))
  /\ UNCHANGED <<taxonomy, text, clock, hash_order, uploads, activity_log, calls>>

NextLoad ==
  \/ ImportOcrUtils
  \/ CallDetectOffenseLoaded
  \/ CallDetectAllLoaded

SpecLoad == InitLoad /\ [][NextLoad]_vars

-----------------------------------------------------------------------------
(* SpecConcurrent: calls of the classifier and of extract_all_info running in *)
(* the threads of one process, each turn of a loop over OFFENSE_LIST.items()  *)
(* a step of its own.  What a call holds is local to it: its argument, the    *)
(* fields and offenders it extracted, its place in the loop and its           *)
(* detected_offenses.                                                         *)

Threads == 1..MaxThreads

\* The texts the concurrent calls are given.
ConcurrentTexts ==
  {<<>>, <<"smoking">>,
   <<"student", "Juan", "Cruz", "was", "caught", "VAPE", "smoking">>}

ConcurrentOps == {"detect_offense", "detect_all", "extract_all_info"}

\* A thread that is in no call.
NotCalling ==
  [op |-> "none", pc |-> "idle", text |-> <<>>, fields |-> <<>>, offenders |-> <<>>,
   description |-> <<>>, n |-> 0, detected_offenses |-> <<>>, offense_detected |-> <<>>,
   out |-> <<>>]

\* The call after the statements that come before its first loop: for
\* extract_all_info the fields, the offenders and their merge.
Entered(op, txt, fields, offenders) ==
  [op |-> op, pc |-> IF op = "detect_all" THEN "detect_all" ELSE "detect_offense",
   text |-> txt, fields |-> fields, offenders |-> offenders,
   description |-> IF op = "extract_all_info" THEN DescriptionOr(fields, txt) ELSE txt,
   n |-> 0, detected_offenses |-> <<>>, offense_detected |-> <<>>, out |-> <<>>]

EnteredExtract(txt, offenders) ==
  Entered("extract_all_info", txt,
          MergeOffender(extract_fields_from_text(txt), offenders,
                        IF offenders = <<>> THEN NoSplit ELSE OffenderSplit(Flat(offenders[1]))),
          offenders)

EnteredCall(op, txt, order) ==
  IF op = "extract_all_info"
    THEN EnteredExtract(txt, identify_offender_from_text(txt, order))
    ELSE Entered(op, txt, <<>>, <<>>)

\* One turn of the loop the call is in: the entry is read from the shared
\* OFFENSE_LIST, the match is appended to the call's own list.
TurnOf(call, info) ==
  LET Appended(m) ==
        [call EXCEPT !.n = call.n + 1,
                     !.detected_offenses =
                        IF m.matched THEN Append(call.detected_offenses, Offense(info, m))
                        ELSE call.detected_offenses]
  IN  IF call.pc = "detect_offense"
        THEN Appended(MatchEntry(info, UpperSeq(call.description)))
        ELSE Appended(MatchEntryAll(info, UpperSeq(call.description)))

\* The loops with detected_offenses a list of the module: the match is
\* appended to the list of every call.
TurnSharesList(cs, t, list) ==
  LET Mine(call) == TurnOf(call, list[call.n + 1])
      Shared(mine) ==
        [u \in DOMAIN cs |->
           IF u = t THEN mine
           ELSE [cs[u] EXCEPT !.detected_offenses =
                   IF Len(mine.detected_offenses) > Len(cs[t].detected_offenses)
                     THEN Append(cs[u].detected_offenses,
                                 mine.detected_offenses[Len(mine.detected_offenses)])
                     ELSE cs[u].detected_offenses]]
  IN  Shared(Mine(cs[t]))

\* The calls after one turn of the loop of thread t.
Turn(cs, t, list) ==
  LET Mine(call) == TurnOf(call, list[call.n + 1])
  IN  [cs EXCEPT ![t] = Mine(cs[t])]

\* What detect_offense_from_text returns after its loop.
AfterDetect(detected_offenses) ==
  IF detected_offenses # <<>> THEN SortBySeverity(detected_offenses)[1] ELSE UnknownOffense

\* What detect_all_offenses_from_text returns after its loop.
AfterDetectAll(sorted) == IF sorted # <<>> THEN sorted ELSE <<UnknownOffenseAll>>

\* The call after the end of the loop it is in.
LoopEnded(call) ==
  IF call.pc = "detect_offense"
    THEN IF call.op = "detect_offense"
           THEN [call EXCEPT !.pc = "returned", !.out = AfterDetect(call.detected_offenses)]
           ELSE [call EXCEPT !.pc = "detect_all", !.n = 0, !.detected_offenses = <<>>,
                             !.offense_detected = AfterDetect(call.detected_offenses)]
  ELSE IF call.op = "detect_all"
    THEN [call EXCEPT !.pc = "returned",
                      !.out = AfterDetectAll(SortBySeverity(call.detected_offenses))]
  ELSE [call EXCEPT !.pc = "returned",
                    !.out = [fields |-> call.fields,
                             offenders_identified |-> call.offenders,
                             offense_detected |-> call.offense_detected,
                             all_offenses_detected |->
                               AfterDetectAll(SortBySeverity(call.detected_offenses))]]

InitConcurrent ==
  /\ taxonomy = SampleTaxonomy
  /\ text = <<>>
  /\ clock = 0
  /\ hash_order \in Orderings(UNION {Candidates(txt) : txt \in ConcurrentTexts})
  /\ uploads = 0
  /\ activity_log = 0
  /\ result = NoCall
  /\ calls = [t \in Threads |-> NotCalling]

\* A thread enters a call.
EnterCall(t) ==
  /\ calls[t].pc \in {"idle", "returned"}
  /\ \E op \in ConcurrentOps, txt \in ConcurrentTexts :
       calls' = [calls EXCEPT ![t] = EnteredCall(op, txt, hash_order)]
  /\ UNCHANGED <<taxonomy, text, clock, hash_order, uploads, activity_log, result>>

\* A thread runs one turn of `for code, info in OFFENSE_LIST.items()`.
LoopTurn(t) ==
  /\ calls[t].pc \in {"detect_offense", "detect_all"}
  /\ calls[t].n < Len(taxonomy)
  /\ calls' = Turn(calls, t, taxonomy)
  /\ UNCHANGED <<taxonomy, text, clock, hash_order, uploads, activity_log, result>>

\* A thread leaves the loop: it sorts its list and returns, or goes on to
\* the second classifier call of extract_all_info.
LoopEnd(t) ==
  /\ calls[t].pc \in {"detect_offense", "detect_all"}
  /\ calls[t].n = Len(taxonomy)
  /\ calls' = [calls EXCEPT ![t] = LoopEnded(calls[t])]
  /\ UNCHANGED <<taxonomy, text, clock, hash_order, uploads, activity_log, result>>

NextConcurrent ==
  \E t \in Threads :
    \/ EnterCall(t)
    \/ LoopTurn(t)
    \/ LoopEnd(t)

SpecConcurrent == InitConcurrent /\ [][NextConcurrent]_vars

-----------------------------------------------------------------------------
(* Claims *)

SplitOps == {"fields_split", "offender_split", "upload_split", "from_text_split", "narrative_name"}

SplitsTo(first, last) ==
  /\ result.out.found
  /\ Join(result.out.first_name) = first
  /\ Join(result.out.last_name) = last

\* C9: every narrative name splitter maps "Juan Miguel De La Cruz" to
\* first_name "Juan Miguel" and last_name "De La Cruz", "Maria Del Rosario" to
\* "Maria" and "Del Rosario", and "John Doe" to "John" and "Doe".
C9_ParticleSplitting ==
  result.op \in SplitOps =>
    /\ text = JuanMiguelDeLaCruz => SplitsTo("Juan Miguel", "De La Cruz")
    /\ text = MariaDelRosario => SplitsTo("Maria", "Del Rosario")
    /\ text = JohnDoe => SplitsTo("John", "Doe")

Matching(description) ==
  {i \in 1..Len(taxonomy) : MatchEntry(taxonomy[i], UpperSeq(description)).matched}

\* C4: the offense detect_offense_from_text returns has the maximum severity
\* over all taxonomy entries that match the description.
C4_MaxSeverity ==
  (result.op = "detect_offense" /\ Matching(text) # {}) =>
    /\ \E i \in Matching(text) : taxonomy[i].code = result.out.code
    /\ \A i \in Matching(text) : taxonomy[i].severity <= result.out.severity

\* C4 witness: two entries with different severities match and the call returned.
C4_Witness ==
  /\ result.op = "detect_offense"
  /\ \E i, j \in Matching(text) : taxonomy[i].severity < taxonomy[j].severity

\* C5: among the matching entries of maximum severity the one declared first
\* is returned, whatever the order of the keywords in the description.
C5_FirstDeclaredWinsTie ==
  (result.op = "detect_offense" /\ Matching(text) # {}) =>
    \A i \in Matching(text) :
       (\A j \in Matching(text) :
           taxonomy[j].severity < taxonomy[i].severity
           \/ (taxonomy[j].severity = taxonomy[i].severity /\ i <= j))
         => result.out.code = taxonomy[i].code

\* C5 witness: two entries of the same, maximal severity match through different
\* keywords, and the keyword of the later entry stands first in the description.
C5_Witness ==
  /\ result.op = "detect_offense"
  /\ Len(text) = 2
  /\ \E i, j \in Matching(text) :
        /\ i < j
        /\ taxonomy[i].severity = taxonomy[j].severity
        /\ \A k \in Matching(text) : taxonomy[k].severity <= taxonomy[i].severity
        /\ MatchEntry(taxonomy[j], UpperSeq(text)).matched_text = Upper(text[1])
        /\ MatchEntry(taxonomy[i], UpperSeq(text)).matched_text = Upper(text[2])
        /\ Upper(text[1]) # Upper(text[2])

\* The sentinel of the classifier: code "UNKNOWN", severity 0, match_method "none".
IsSentinel(offense) ==
  /\ offense.code = "UNKNOWN"
  /\ offense.severity = 0
  /\ "match_method" \in DOMAIN offense
  /\ offense.match_method = "none"

\* C6: when no entry matches, detect_offense_from_text returns the sentinel and
\* detect_all_offenses_from_text returns the sentinel as its only element.
C6_SentinelWhenNoMatch ==
  Matching(text) = {} =>
    /\ result.op = "detect_offense" => IsSentinel(result.out)
    /\ result.op = "detect_all" => (Len(result.out) = 1 /\ IsSentinel(result.out[1]))

\* The operations that merge the first offender into the fields.
MergeOps == {"extract_all_info", "upload_ocr_form", "extract_from_text"}

\* The operation returned fields: the routes do with status 200.
ReturnedFields ==
  /\ result.op \in MergeOps
  /\ result.op # "extract_all_info" => result.out.status = 200

\* The value of the 'Last Name:' template field of the text.
TemplateLastName == TemplateValue(text, {"lastname:", "lastname", "last"})

\* C1: two calls in a row of extract_all_info, or of OCRService.extract_all_info
\* with the same entity type, on the same text under the same taxonomy return
\* results that are equal in every field.
C1_Deterministic ==
  [][(/\ result.op \in {"extract_all_info", "OCRService.extract_all_info"}
      /\ result'.op = result.op
      /\ result'.args = result.args)
      => result'.out = result.out]_vars

\* C2: when the text has a 'Last Name:' template field with a value and the
\* offender scanner finds a narrative name, the last_name of the fields that
\* extract_all_info and the OCR routes return is the template value, with or
\* without a 'First Name:' field.
C2_TemplateLastNameKept ==
  (ReturnedFields /\ TemplateLastName # <<>> /\ OffenderSet(text) # {}) =>
    result.out.fields.last_name = TemplateLastName

\* C3: OCRService.extract_all_info returns a result for every text and every
\* entity type; no pattern cascade raises.
C3_NeverRaises ==
  result.op = "OCRService.extract_all_info" => result.out.raised = ""

\* C7: on the empty text, extract_all_info returns empty fields, no offender
\* and the offense UNKNOWN of severity 0, and OCRService.extract_all_info for a
\* student returns without an exception, every field None and confidence 0.0.
C7_EmptyInput ==
  text = <<>> =>
    /\ result.op = "extract_all_info" =>
         /\ \A k \in DOMAIN result.out.fields : result.out.fields[k] = <<>>
         /\ result.out.offenders_identified = <<>>
         /\ result.out.offense_detected.code = "UNKNOWN"
         /\ result.out.offense_detected.severity = 0
    /\ (result.op = "OCRService.extract_all_info" /\ result.args = <<"student">>) =>
         /\ result.out.raised = ""
         /\ \A k \in DOMAIN result.out.info : ~Truthy(result.out.info[k])
         /\ result.out.extraction_confidence.num = 0

\* C7 witness: extract_all_info was called on the empty text under a taxonomy
\* that has entries.
C7_Witness ==
  /\ text = <<>>
  /\ taxonomy # <<>>
  /\ result.op = "extract_all_info"

\* The call returned a confidence.
ReturnedConfidence ==
  \/ result.op = "OCRService.extract_all_info" /\ result.out.raised = ""
  \/ result.op = "extract_ocr_data" /\ result.out.status = 200

\* C8: the extraction_confidence that OCRService.extract_all_info and the
\* /ocr/extract route return is at least 0.0 and at most 1.0.
C8_ConfidenceInBounds ==
  ReturnedConfidence =>
    /\ 0 <= result.out.extraction_confidence.num
    /\ result.out.extraction_confidence.num <= result.out.extraction_confidence.den

\* C8 witness: OCRService found every field it counts, and the description.
C8_Witness ==
  /\ result.op = "OCRService.extract_all_info"
  /\ result.out.raised = ""
  /\ result.out.extraction_confidence.num = result.out.extraction_confidence.den
  /\ Truthy(result.out.info.description)

\* C11: the text normalizer is idempotent: normalizing a text that
\* _clean_text returned gives that text back, also when the raw text had
\* characters outside the allow-list.
C11_Idempotent ==
  result.op = "_clean_text" => CleanChars(result.out) = result.out

\* The loaded taxonomy is a mapping whose entries all have label, category
\* and severity.
WellFormedTaxonomy ==
  /\ taxonomy.mapping
  /\ \A n \in 1..Len(taxonomy.entries) : RequiredKeys \subseteq DOMAIN taxonomy.entries[n]

\* C12: a missing or malformed taxonomy document makes the load fail at
\* startup, so every call of detect_offense_from_text and of
\* detect_all_offenses_from_text is evaluated against a taxonomy that is a
\* mapping of complete entries.
C12_NoCallOnMalformedTaxonomy ==
  result.op \in {"detect_offense", "detect_all"} => WellFormedTaxonomy

\* What the call returns when it runs alone.
RunAlone(call) ==
  IF call.op = "detect_offense" THEN detect_offense_from_text(taxonomy, call.text)
  ELSE IF call.op = "detect_all" THEN detect_all_offenses_from_text(taxonomy, call.text)
  ELSE extract_all_info(taxonomy, call.text, hash_order)

\* C13: whatever the interleaving of the concurrent calls, every call
\* returns what it returns when run alone, no step changes the taxonomy, and
\* a step of one call leaves what every other call holds as it was.
C13_ConcurrentCallsIndependent ==
  /\ [](\A t \in Threads : calls[t].pc = "returned" => calls[t].out = RunAlone(calls[t]))
  /\ [][/\ taxonomy' = taxonomy
        /\ \E t \in Threads : \A u \in Threads \ {t} : calls'[u] = calls[u]]_vars

\* C13 witness: a call has returned a detected offense while another call, on
\* another text, is inside its loop with a match in its list.
C13_Witness ==
  \E t, u \in Threads :
    /\ calls[t].pc = "returned"
    /\ calls[t].op = "extract_all_info"
    /\ calls[t].out.offense_detected.code # "UNKNOWN"
    /\ calls[u].pc = "detect_all"
    /\ calls[u].n = 1
    /\ calls[u].detected_offenses # <<>>
    /\ calls[u].text # calls[t].text

\* The values of the 'Last Name:' and 'First Name:' template fields are both
\* there and all in upper case.
UpperCaseTemplate ==
  /\ IsUpperStr(TemplateLastName)
  /\ IsUpperStr(TemplateValue(text, {"firstname:", "firstname", "first"}))

\* C14: for a template text whose 'Last Name:' and 'First Name:' values are
\* all upper case, the last_name and first_name returned are those values in
\* title case; for scenario A they are "De La Cruz" and "Juan Miguel", with
\* program "Bsit" or "BSIT" and section "3A".
C14_UpperCaseTemplateTitleCased ==
  (ReturnedFields /\ UpperCaseTemplate) =>
    /\ result.out.fields.last_name = TitleSeq(TemplateLastName)
    /\ result.out.fields.first_name =
         TitleSeq(TemplateValue(text, {"firstname:", "firstname", "first"}))
    /\ text = ScenarioA =>
         /\ Join(result.out.fields.last_name) = "De La Cruz"
         /\ Join(result.out.fields.first_name) = "Juan Miguel"
         /\ Join(result.out.fields.program) \in {"Bsit", "BSIT"}
         /\ Join(result.out.fields.section) = "3A"

\* C15: on the narrative of scenario B the extraction returns first_name
\* "Juan Miguel" and last_name "De La Cruz", a program that contains "BSIT",
\* the section "3A", the date "2025-10-07" and the category of the smoking
\* entry: extract_all_info and the OCR routes in their fields and detected
\* offense, the /ocr/extract route in the data of NarrativeOCRService.
C15_ScenarioB ==
  text = ScenarioB =>
    /\ ReturnedFields =>
         /\ Join(result.out.fields.first_name) = "Juan Miguel"
         /\ Join(result.out.fields.last_name) = "De La Cruz"
         /\ \E i \in DOMAIN result.out.fields.program : result.out.fields.program[i] = "BSIT"
         /\ Join(result.out.fields.section) = "3A"
         /\ Join(result.out.fields.date) = "2025-10-07"
         /\ result.out.offense_detected.category = taxonomy[1].category
    /\ (result.op = "extract_ocr_data" /\ result.out.status = 200) =>
         /\ Join(result.out.data.first_name) = "Juan Miguel"
         /\ Join(result.out.data.last_name) = "De La Cruz"
         /\ \E i \in DOMAIN result.out.data.program_or_dept :
              result.out.data.program_or_dept[i] = "BSIT"
         /\ Join(result.out.data.section) = "3A"
         /\ Join(result.out.data.date) = "2025-10-07"
         /\ Join(result.out.data.offense_category) = "Category A"

\* The value of the 'First Name:' template field of the text.
TemplateFirstName == TemplateValue(text, {"firstname:", "firstname", "first"})

\* C16: when the template attempt produced first_name or last_name, the
\* fields that extract_all_info and the OCR routes return hold the two
\* template values: neither the narrative branch nor the offender merge
\* has written a name.
C16_NarrativeOnlyWhenBothEmpty ==
  (ReturnedFields /\ (TemplateLastName # <<>> \/ TemplateFirstName # <<>>)) =>
    /\ result.out.fields.last_name = TemplateLastName
    /\ result.out.fields.first_name = TemplateFirstName

\* The particles of the rule, and the places among the last three words
\* of a name where one stands.
RuleParticles == {"de", "dela", "del", "van", "von", "san", "santa"}

ParticlePlaces(name_parts) ==
  {i \in 1..Len(name_parts) :
     i > Len(name_parts) - 3 /\ Lower(name_parts[i]) \in RuleParticles}

\* C17: the narrative split of a name of two or more words puts a
\* particle among its last three words, with every word after it, in
\* last_name and every word before it in first_name; without such a particle
\* last_name is the final word and first_name the words before it.
C17_SplitAtParticle ==
  (result.op \in {"fields_split", "narrative_name"} /\ Len(text) >= 2 /\ result.out.found) =>
    IF ParticlePlaces(text) # {}
      THEN \E p \in ParticlePlaces(text) :
             /\ result.out.last_name = SubSeq(text, p, Len(text))
             /\ result.out.first_name = SubSeq(text, 1, p - 1)
      ELSE /\ result.out.last_name = LastK(text, 1)
           /\ result.out.first_name = ButLast(text, 1)

\* C18: when a splitter returns a first_name and a last_name that are both
\* non-empty, no word of first_name is a particle: every particle of the
\* name is in last_name.
C18_NoParticleInFirstName ==
  (/\ result.op \in SplitOps
   /\ result.out.found
   /\ result.out.first_name # <<>>
   /\ result.out.last_name # <<>>) =>
    \A i \in DOMAIN result.out.first_name :
      Lower(result.out.first_name[i]) \notin RuleParticles

\* C19: for a captured name of a single word the narrative split returns
\* that word as first_name and an empty last_name.
C19_SingleWordName ==
  (result.op \in {"fields_split", "narrative_name"} /\ Len(text) = 1) =>
    /\ result.out.first_name = text
    /\ result.out.last_name = <<>>

\* The keywords of an entry that occur in the description when letter case
\* is ignored on both sides, by their places in the list.
KeywordsIgnoringCase(info) ==
  {k \in DOMAIN info.keywords :
     \E i \in DOMAIN text : Lower(text[i]) = Lower(info.keywords[k])}

\* C20: an entry whose regex does not match and one of whose keywords
\* occurs in the description, letter case ignored, is among the offenses
\* that detect_all_offenses_from_text returns, matched by keyword, with the
\* first such keyword of its list as matched_text.
C20_KeywordsIgnoreCase ==
  result.op = "detect_all" =>
    \A n \in DOMAIN taxonomy :
      (/\ ~(taxonomy[n].has_regex /\ RegexSearch(taxonomy[n].regex, UpperSeq(text)) # 0)
       /\ KeywordsIgnoringCase(taxonomy[n]) # {}) =>
        \E j \in DOMAIN result.out :
          /\ result.out[j].code = taxonomy[n].code
          /\ result.out[j].match_method = "keyword"
          /\ result.out[j].matched_text =
               taxonomy[n].keywords[Min(KeywordsIgnoringCase(taxonomy[n]))]

\* The regex of the entry matches the description.
RegexMatches(info) == info.has_regex /\ RegexSearch(info.regex, UpperSeq(text)) # 0

NoDescriptionField ==
  \A i \in DOMAIN text : Lower(text[i]) \notin {"description:", "description"}

\* C22: on a text without a Description field extract_all_info classifies
\* the whole text: every entry that matches in some line of the text is in
\* all_offenses_detected, and offense_detected is UNKNOWN only when no entry
\* matches the text.
C22_WholeTextClassified ==
  (result.op = "extract_all_info" /\ NoDescriptionField) =>
    /\ \A n \in Matching(text) :
         \E j \in DOMAIN result.out.all_offenses_detected :
           result.out.all_offenses_detected[j].code = taxonomy[n].code
    /\ result.out.offense_detected.code = "UNKNOWN" => Matching(text) = {}

\* The expected fields, by their keys in the result of OCRService and in
\* the data of the /ocr/extract route.
ExpectedFields ==
  {"first_name", "last_name", "section", "program", "date", "category", "specific_offense"}
ExpectedData ==
  {"first_name", "last_name", "section", "program_or_dept", "date", "offense_category",
   "offense_type"}

\* The fraction num/den is n out of the expected fields, rounded to 2 decimals.
IsRoundedShare(fraction, n) ==
  fraction.num * 100 = Round2(n, Cardinality(ExpectedFields)) * fraction.den

\* C23: the confidence of OCRService.extract_all_info and that of the
\* /ocr/extract route are the number of non-empty fields among first name,
\* last name, section, program, date, offense category and offense type,
\* divided by seven and rounded to 2 decimals.
C23_ConfidenceIsRoundedShare ==
  /\ (result.op = "OCRService.extract_all_info" /\ result.out.raised = "") =>
       IsRoundedShare(result.out.extraction_confidence,
                      Cardinality({k \in ExpectedFields \cap DOMAIN result.out.info :
                                     Truthy(result.out.info[k])}))
  /\ (result.op = "extract_ocr_data" /\ result.out.status = 200) =>
       IsRoundedShare(result.out.extraction_confidence,
                      Cardinality({k \in ExpectedData : result.out.data[k] # <<>>}))

\* C24: every '&' of the raw text is the word 'and' in what _clean_text
\* returns: the output spells 'and' as many times as the input has '&'.
C24_AmpersandBecomesAnd ==
  result.op = "_clean_text" =>
    Cardinality({i \in 1..(Len(result.out) - 2) :
                   SubSeq(result.out, i, i + 2) = <<"a", "n", "d">>})
      = Cardinality({i \in DOMAIN text : text[i] = "&"})

\* The first match of the k-th name pattern in the text of the request that
\* passes the checks of the code.
PatternName(k) == FirstName(NamePatterns[k], Scan(Strip(text)), 1)

\* C25: a non-empty full_name that extract_student_name_from_narrative
\* returns (here in the data of the /ocr/extract route) has 2 to 4 words, each
\* begins with an uppercase letter, it holds no phrase of the false-positive
\* list, and it is the name of the earliest pattern that has such a match.
C25_NameAccepted ==
  (result.op = "extract_ocr_data" /\ result.out.status = 200 /\ result.out.data.full_name # <<>>) =>
    LET full_name == result.out.data.full_name
    IN  /\ Len(full_name) \in 2..4
        /\ \A i \in DOMAIN full_name : FirstIsUpper(full_name[i])
        /\ ~IsFalsePositive(full_name)
        /\ \E k \in DOMAIN NamePatterns :
             /\ PatternName(k).found
             /\ PatternName(k).full_name = full_name
             /\ \A j \in 1..(k - 1) : ~PatternName(j).found

\* The month names of the vocabulary, English and Filipino.
MonthNames == {"october", "oktubre"}

\* The places of a text where a month name stands before a day and a year,
\* where a slash date stands, and where an ISO date stands.
MonthNameDates(F) ==
  {i \in 1..(Len(F) - 2) : /\ F[i].lower \in MonthNames
                           /\ IsDay(F[i + 1].raw)
                           /\ F[i + 2].raw = "2025"}
SlashDates(F) == {i \in 1..Len(F) : IsSlashDate(F[i].raw)}

\* A returned date that was read from the month-name date at place i of F:
\* as it is written there, or its day as yyyy-mm-dd.
FromMonthName(date, F, i) ==
  \/ date = <<F[i].raw, F[i + 1].raw, F[i + 2].raw>>
  \/ date = <<DayToken(F[i + 1].raw)>>

\* C26: of the dates of a text the date extractors return a month-name date
\* (English or Filipino) before a numeric slash date, and a slash date before
\* an ISO date, wherever they stand: extract_date_from_narrative in the data
\* of the /ocr/extract route, the narrative step of extract_fields_from_text
\* in the fields of a text without a Date: label.
C26_DateNotationOrder ==
  LET Ordered(date, F) ==
        /\ MonthNameDates(F) # {} => \E i \in MonthNameDates(F) : FromMonthName(date, F, i)
        /\ (MonthNameDates(F) = {} /\ SlashDates(F) # {}) =>
             date \in {<<"10/7/2025">>, <<"2025-10-07">>}
  IN  /\ (result.op = "extract_ocr_data" /\ result.out.status = 200) =>
           Ordered(result.out.data.date, Scan(Strip(text)))
      /\ (ReturnedFields /\ TemplateValue(text, {"date:", "date"}) = <<>>) =>
           Ordered(result.out.fields.date, Scan(text))

\* What the 'department' pattern captures first in the cleaned text, in lower case.
DepartmentCaptured ==
  LET Captured(C) ==
        LET hits == {i \in 1..Len(C) : HasKeyword("department", C[i])}
        IN  IF hits = {} THEN <<>> ELSE LowerSeq(CaptureAt("words", C, Min(hits)))
  IN  Captured(Scan(_clean_text(text)))

\* C27: for a faculty member, a captured department that is the abbreviation
\* GE is returned as 'General Education (GE)', and a captured department
\* 'Business Management' is returned as 'Business Management (BM)', never as
\* General Education.
C27_DepartmentCanonical ==
  (result.op = "OCRService.extract_all_info" /\ result.args = <<"faculty">>) =>
    /\ DepartmentCaptured = <<"ge">> =>
         /\ result.out.raised = ""
         /\ result.out.info.department = Some(<<"General", "Education", "(GE)">>)
    /\ DepartmentCaptured = <<"business", "management">> =>
         /\ result.out.raised = ""
         /\ result.out.info.department = Some(<<"Business", "Management", "(BM)">>)

\* OCRService.extract_all_info returned a result for a faculty or staff member.
ReturnedForEmployee ==
  /\ result.op = "OCRService.extract_all_info"
  /\ result.args[1] \in {"faculty", "staff"}
  /\ result.out.raised = ""

\* C28: for a faculty or staff member the extraction_confidence of
\* OCRService.extract_all_info is at most 4/6, that is 0.67: the result has no
\* program and no section, and the confidence is the rounded share of first
\* name, last name, category and specific offense in six, whether or not a
\* department or position was found.
C28_EmployeeConfidenceAtMostFourSixths ==
  ReturnedForEmployee =>
    /\ result.out.extraction_confidence.num <= 67
    /\ result.out.extraction_confidence.den = 100
    /\ DOMAIN result.out.info \cap {"program", "section"} = {}
    /\ result.out.extraction_confidence.num =
         Round2(Cardinality({k \in {"first_name", "last_name", "category", "specific_offense"} :
                               Truthy(result.out.info[k])}), total_fields)

\* C28 witness: a faculty member with the department found and the
\* confidence at 0.67.
C28_Witness ==
  /\ ReturnedForEmployee
  /\ result.args = <<"faculty">>
  /\ Truthy(result.out.info.department)
  /\ result.out.extraction_confidence.num = 67

\* C29: in what extract_offense_info returns (here merged into the result of
\* OCRService.extract_all_info) the category is not None whenever the
\* specific_offense is not None, whether the offense was found by a name of
\* the map or by one of the fallback patterns.
C29_OffenseHasCategory ==
  (result.op = "OCRService.extract_all_info" /\ result.out.raised = "") =>
    (result.out.info.specific_offense.some => result.out.info.category.some)

\* The template fields and their labels.
TemplateFields == {"last_name", "first_name", "program", "section", "date"}
LabelOf(key) ==
  CASE key = "last_name" -> "lastname:"
    [] key = "first_name" -> "firstname:"
    [] key = "program" -> "program:"
    [] key = "section" -> "section:"
    [] key = "date" -> "date:"

\* The first place of the label in the text, 0 if it is not there; whether
\* the label has nothing behind it on its line; the next line with content.
LabelAt(key) ==
  LET at == {i \in 1..Len(text) : Lower(text[i]) = LabelOf(key)}
  IN  IF at = {} THEN 0 ELSE Min(at)
LeftEmpty(key) ==
  /\ LabelAt(key) # 0
  /\ LabelAt(key) = Len(text) \/ text[LabelAt(key) + 1] = NL
FollowingLine(key) ==
  LET after == {k \in (LabelAt(key) + 1)..Len(text) : text[k] # NL}
      stops(start) == {k \in start..Len(text) : k = Len(text) \/ text[k + 1] = NL}
  IN  IF after = {} THEN <<>> ELSE SubSeq(text, Min(after), Min(stops(Min(after))))

\* C30: a template label with no value on its own line gives its field no
\* value from the template: neither the content of a following line nor the
\* colon of the label is the value of the field in what
\* extract_fields_from_text returns, or part of an offender that
\* identify_offender_from_text names.
C30_ValueFromLabelLine ==
  ReturnedFields =>
    \A key \in TemplateFields :
      LeftEmpty(key) =>
        /\ result.out.fields[key] # <<":">>
        /\ FollowingLine(key) # <<>> =>
             /\ result.out.fields[key] # FollowingLine(key)
             /\ \A n \in DOMAIN result.out.offenders_identified :
                  \A i \in 1..Len(result.out.offenders_identified[n]) :
                    SubSeq(result.out.offenders_identified[n], i,
                           Len(result.out.offenders_identified[n])) # FollowingLine(key)

=============================================================================
